---- MODULE Spec2Model ----
(***************************************************************************)
(* A model of the clack prompt engine: the Prompt session state machine    *)
(* (packages/core/src/prompts/prompt.ts), its event register, its use of   *)
(* node:readline, and ConfirmPrompt built on top of it.                    *)
(*                                                                         *)
(* A key handler runs to completion before the next one starts (one        *)
(* JavaScript thread), so each handler is one action.  Inside an action    *)
(* the code is followed statement by statement on a record `s` that holds  *)
(* every mutable field; the action commits the final record.               *)
(*                                                                         *)
(* Specifications: Spec and SpecThrow are whole sessions (callbacks that   *)
(* return, callbacks that may throw), SpecAliases a session on the         *)
(* vi-style letters, SpecBus the event register called directly, and       *)
(* SpecRender the renderer called with arbitrary frames on a terminal.     *)
(* SpecBlock is an acquisition made by block() (packages/core/src/utils.ts)*)
(* with its keypress listener and its asynchronous callbacks, and         *)
(* SpecMeasure the three strLength functions applied to one string.        *)
(* SpecFormat is one call of Prompt.format followed word by word, and      *)
(* SpecFormatFair the same call in a program that keeps running.           *)
(* SpecPath is a PathPrompt in select mode moving over a directory tree.   *)
(***************************************************************************)
EXTENDS Integers, Sequences, FiniteSets, TLC

\* Bounds of the model.
MaxLen == 2        \* characters typed into the line buffer in one session
MaxErrors == 2     \* validation failures counted (the counter saturates)
MaxCalls == 3      \* invocations counted per callback (the counter saturates)
MaxLines == 3      \* lines of a frame returned by an arbitrary render function
MaxRows == 5       \* terminal rows followed below the top of the prompt
MaxKeys == 3       \* keypresses delivered to an input held by block()
MaxPieces == 3     \* pieces (characters, escape sequences) of a measured string
MaxText == 4       \* characters of a text given to Prompt.format
MaxWidth == 5      \* the largest maxWidth given to Prompt.format
MaxSpins == 2      \* lines kept of those a hard-split loop that stands still pushes
MaxSiblings == 3   \* entries of the directory a PathPrompt starts in
MaxPrompts == 3    \* prompts handed to one group()
MaxEvents == 4     \* start, stop, signal and exit events on one spinner
MaxOptions == 8    \* options of one select()
MaxItems == 7      \* the largest opts.maxItems of a select()

----------------------------------------------------------------------------
\* JavaScript values held by `value` and passed to resolve().

Str(chars) == [type |-> "string", str |-> chars]
Bool(b) == [type |-> "boolean", bool |-> b]
Undefined == [type |-> "undefined"]
Sym(id, desc) == [type |-> "symbol", id |-> id, desc |-> desc]

\* const cancel = Symbol('clack:cancel'): a symbol is equal to itself only.
cancel == Sym(0, "clack:cancel")

\* isCancel comparing the descriptions of two symbols, not their identity.
isCancelByDescription(v) == v.type = "symbol" /\ v.desc = cancel.desc

\* export function isCancel(value) { return value === cancel; }
isCancel(v) == v = cancel

\* JavaScript truthiness of the values above.
Truthy(v) ==
    CASE v.type = "string" -> v.str # <<>>
      [] v.type = "boolean" -> v.bool
      [] v.type = "symbol" -> TRUE
      [] OTHER -> FALSE

----------------------------------------------------------------------------
\* Keypresses as node:readline delivers them: (char, key.name).

ETX == "\\x03"     \* the interrupt byte 0x03 (ctrl-c)
NoChar == ""       \* escape sequences (arrow keys) carry no character

Letters == {"a", "b", "h", "Y", "n"}
AliasLetters == {"h", "j", "k", "l"}
ConfirmLetters == {"y", "Y", "n", "N", "a", "h"}
toLowerCase(c) == CASE c = "Y" -> "y" [] c = "N" -> "n" [] OTHER -> c

Key(c, n) == [char |-> c, name |-> n]
TabKey == Key("\t", "tab")
TextKeys ==
    {Key(c, toLowerCase(c)) : c \in Letters \cup AliasLetters \cup ConfirmLetters}
        \cup {TabKey}
ReturnKey == Key("\r", "return")
InterruptKey == Key(ETX, "c")
UpKey == Key(NoChar, "up")
\* The keyboard of a general session, and the one of a session in which
\* only the vi-style letters, an arrow key, return and ctrl-c are pressed.
Keypresses ==
    {Key(c, toLowerCase(c)) : c \in Letters}
        \cup {TabKey, ReturnKey, InterruptKey, UpKey}
AliasKeypresses ==
    {Key(c, c) : c \in AliasLetters} \cup {ReturnKey, InterruptKey, UpKey}
\* The keyboard of a ConfirmPrompt: both answers in either case, a letter
\* that is no answer, a vi-style letter, an arrow key, return and ctrl-c.
ConfirmKeypresses ==
    {Key(c, toLowerCase(c)) : c \in ConfirmLetters}
        \cup {ReturnKey, InterruptKey, UpKey}

\* const aliases = new Map([['k','up'],['j','down'],['h','left'],['l','right']])
aliases == [k \in {"k", "j", "h", "l"} |->
              CASE k = "k" -> "up" [] k = "j" -> "down"
                [] k = "h" -> "left" [] OTHER -> "right"]
\* const keys = new Set(['up','down','left','right','space','enter'])
keys == {"up", "down", "left", "right", "space", "enter"}

----------------------------------------------------------------------------
\* Constructor arguments: fixed for the life of a session.
VARIABLES
    kind,          \* "Prompt" (free-form text) or "ConfirmPrompt"
    _track,        \* trackValue: value follows the readline line buffer
    validate,      \* opts.validate: "none" or the name of a validator
    renderFn,      \* opts.render: "themed" (a frame) or "void" (no value)
    initialValue,  \* opts.initialValue
    isTTY,         \* input.isTTY
    finalizeHook,  \* a subscriber registered with on('finalize', ...)
    mayThrow       \* whether a callback may throw in this environment

\* Fields of the Prompt object.
VARIABLES
    state, value, error, subscribers, _prevFrame, unsubscribed

\* The streams and node:readline.
VARIABLES
    line,          \* rl.line
    rlClosed,      \* rl.close() has run
    rawMode,       \* the terminal is in raw mode
    keypressOn,    \* onKeypress is a 'keypress' listener of input
    resizeOn,      \* render is a 'resize' listener of output
    piped,         \* input is piped into the sink
    cursorHidden,  \* cursor.hide was written last, not cursor.show
    newlines,      \* '\n' writes made by close()
    columns,       \* process.stdout.columns
    out,           \* what render wrote to the output in the latest handler
    screen,        \* the terminal's rows from the prompt's first row down
    cursorRow,     \* the row the terminal cursor is on (0: the first row)
    lastRender     \* the latest handler's call of render: what it started
                   \* from and the frame it produced

\* The promise returned by prompt(), and what the handlers did.
VARIABLES
    pc,            \* "constructed", "prompting", or the handler that an
                   \* uncaught exception left: "promptThrew",
                   \* "keypressThrew", "resizeThrew"
    resolveCalls,  \* calls of the promise's resolve()
    resolvedWith,  \* the value the promise settled with
    atResolve,     \* the stream state at each resolve() call
    closeCalls,    \* calls of close()
    finalizeLog,   \* one entry per emit('finalize')
    events,        \* emits of the latest key handler, in order
    transitions,   \* every <<from, to>> assignment that changed `state`
    errCount,      \* validation failures so far (saturating at MaxErrors)
    typed,         \* characters inserted by keypresses, in arrival order
    lastKey,       \* the key of the latest key handler
    keyState,      \* the state in which that key arrived
    calls,         \* callbacks invoked by the latest handler, in order
    registry,      \* every registration made through On and Once
    invocations    \* invocations of each callback so registered

\* The utilities next to the prompt engine, each followed on its own.
VARIABLES
    blocker,       \* an acquisition made by block(): options and handles
    measure,       \* a string, and its length as one strLength returned it
    formatter,     \* a call of Prompt.format: arguments, position, locals
    pathPrompt,    \* a PathPrompt in select mode: the disk, root, _cursorMap
    grouping,      \* a call of group(): its prompts, results and position
    spinning,      \* one spinner(): its locals, acquisitions and timers
    selecting      \* one select(): options, cursor, window and option lines

config == <<kind, _track, validate, renderFn, initialValue, isTTY, finalizeHook,
            mayThrow>>
object == <<state, value, error, subscribers, _prevFrame, unsubscribed>>
streams == <<line, rlClosed, rawMode, keypressOn, resizeOn, piped, cursorHidden,
             newlines, columns, out, screen, cursorRow, lastRender>>
history == <<pc, resolveCalls, resolvedWith, atResolve, closeCalls, finalizeLog,
             events, transitions, errCount, typed, lastKey, keyState, calls,
             registry, invocations>>
later == <<grouping, spinning, selecting>>
aside == <<blocker, measure, formatter, pathPrompt, later>>
vars == <<config, object, streams, history, aside>>

\* A text (a string that may hold '\n') is held as the sequence of its
\* lines, a line as the sequence of its characters: '' is one empty line,
\* text.split('\n') is the sequence itself and lines.join('\n') likewise.
EmptyText == << <<>> >>

NoRender == [called |-> FALSE, prev |-> EmptyText, frame |-> EmptyText,
             from |-> "initial", screen |-> <<>>, row |-> 0]

Events == {"cursor", "key", "confirm", "value", "finalize", "submit", "cancel"}
Terminal == {"submit", "cancel"}

\* The mutable fields as one record, for following a handler step by step.
\* `fault` names the callback that throws during this handler ("none": none);
\* `threw` is set once it has, and every later statement is then skipped.
Cur(fault) ==
    [state |-> state, value |-> value, error |-> error,
     subscribers |-> subscribers, _prevFrame |-> _prevFrame,
     unsubscribed |-> unsubscribed, line |-> line, rlClosed |-> rlClosed,
     rawMode |-> rawMode, keypressOn |-> keypressOn, resizeOn |-> resizeOn,
     piped |-> piped, cursorHidden |-> cursorHidden, newlines |-> newlines,
     resolveCalls |-> resolveCalls, resolvedWith |-> resolvedWith,
     atResolve |-> atResolve, closeCalls |-> closeCalls,
     finalizeLog |-> finalizeLog, events |-> events,
     transitions |-> transitions, errCount |-> errCount, typed |-> typed,
     columns |-> columns, calls |-> calls, emitting |-> {},
     out |-> <<>>, screen |-> screen, cursorRow |-> cursorRow,
     lastRender |-> NoRender, returns |-> EmptyText,
     fault |-> fault, threw |-> FALSE]

Commit(s) ==
    /\ state' = s.state /\ value' = s.value /\ error' = s.error
    /\ subscribers' = s.subscribers /\ _prevFrame' = s._prevFrame
    /\ unsubscribed' = s.unsubscribed /\ line' = s.line
    /\ rlClosed' = s.rlClosed /\ rawMode' = s.rawMode
    /\ keypressOn' = s.keypressOn /\ resizeOn' = s.resizeOn
    /\ piped' = s.piped /\ cursorHidden' = s.cursorHidden
    /\ newlines' = s.newlines /\ resolveCalls' = s.resolveCalls
    /\ resolvedWith' = s.resolvedWith /\ atResolve' = s.atResolve
    /\ closeCalls' = s.closeCalls /\ finalizeLog' = s.finalizeLog
    /\ events' = s.events /\ transitions' = s.transitions
    /\ errCount' = s.errCount /\ typed' = s.typed /\ columns' = s.columns
    /\ calls' = s.calls /\ out' = s.out /\ screen' = s.screen
    /\ cursorRow' = s.cursorRow /\ lastRender' = s.lastRender
    /\ UNCHANGED aside

\* this.state = to
SetState(s, to) ==
    [s EXCEPT !.state = to,
              !.transitions = IF s.state = to THEN @ ELSE @ \cup {<<s.state, to>>}]

Throw(s) == [s EXCEPT !.threw = TRUE]

----------------------------------------------------------------------------
\* The event register: on, once, emit, unsubscribe.

Subscriber(cb, isOnce) == [cb |-> cb, once |-> isOnce]

on(s, event, cb) ==
    [s EXCEPT !.subscribers[event] = Append(@, Subscriber(cb, FALSE))]
once(s, event, cb) ==
    [s EXCEPT !.subscribers[event] = Append(@, Subscriber(cb, TRUE))]

unsubscribe(s) ==
    [s EXCEPT !.subscribers = [e \in Events |-> <<>>],
              !.unsubscribed = @ + 1]

\* function setRawMode(input, value): only a TTY has a raw mode.
setRawMode(s, v) == IF isTTY THEN [s EXCEPT !.rawMode = v] ELSE s

\* Resolve with the output.off('resize', this.render) left out.
ResolveStillListening(s, v) ==
    LET cooked == setRawMode([s EXCEPT !.cursorHidden = FALSE], FALSE)
    IN [cooked EXCEPT
          !.resolveCalls = @ + 1,
          !.resolvedWith = IF s.resolveCalls = 0 THEN v ELSE @,
          !.atResolve = Append(@, [rawMode |-> cooked.rawMode,
                                   cursorHidden |-> cooked.cursorHidden,
                                   keypressOn |-> cooked.keypressOn,
                                   resizeOn |-> cooked.resizeOn,
                                   state |-> cooked.state])]

\* The body of the once('submit') and once('cancel') callbacks of prompt():
\* show the cursor, detach render from 'resize', leave raw mode, resolve.
\* A promise settles with the first resolve() only.
Resolve(s, v) ==
    LET shown == [s EXCEPT !.cursorHidden = FALSE, !.resizeOn = FALSE]
        cooked == setRawMode(shown, FALSE)
    IN [cooked EXCEPT
          !.resolveCalls = @ + 1,
          !.resolvedWith = IF s.resolveCalls = 0 THEN v ELSE @,
          !.atResolve = Append(@, [rawMode |-> cooked.rawMode,
                                   cursorHidden |-> cooked.cursorHidden,
                                   keypressOn |-> cooked.keypressOn,
                                   resizeOn |-> cooked.resizeOn,
                                   state |-> cooked.state])]

\* Array.prototype.indexOf (0-based, -1 when absent) and splice(start, 1),
\* where a negative start counts from the end of the array.
indexOf(arr, x) ==
    IF \E i \in DOMAIN arr : arr[i] = x
    THEN (CHOOSE i \in DOMAIN arr :
              arr[i] = x /\ \A j \in 1..(i - 1) : arr[j] # x) - 1
    ELSE -1

spliceOne(arr, start) ==
    LET from == IF start < 0 THEN (IF Len(arr) + start < 0 THEN 0
                                   ELSE Len(arr) + start)
                ELSE IF start > Len(arr) THEN Len(arr) ELSE start
    IN SubSeq(arr, 1, from) \o SubSeq(arr, from + 2, Len(arr))

RECURSIVE emit(_, _, _), RunSubscribers(_, _, _, _, _, _, _, _),
          RunCleanup(_, _, _, _, _), Invoke(_, _, _), close(_)

\* emit(event, ...data): walk the event's array, calling each subscriber and
\* noting the once-subscribers called; then run the noted removals.  The
\* walk and the removals work on the array object itself, which on(), once()
\* and a nested emit of the same event share; after unsubscribe() the map no
\* longer holds that array, and the walk goes on over what it held.
\* An exception thrown by a subscriber leaves emit before any removal.
emit(s, event, arg) ==
    IF s.threw THEN s
    ELSE LET cbs == s.subscribers[event]
             entry == [ev |-> event, arg |-> arg, st |-> s.state,
                       n |-> Len(cbs), closeCalls |-> s.closeCalls,
                       unsubscribed |-> s.unsubscribed, registered |-> cbs]
             logged == [s EXCEPT
                          !.events = Append(@, entry),
                          !.finalizeLog = IF event = "finalize"
                                          THEN Append(@, entry) ELSE @]
         IN RunSubscribers(logged, event, arg, Len(logged.events),
                           s.unsubscribed, cbs, 0, <<>>)

\* for (const subscriber of cbs): the array iterator reads the array's
\* length and its element at index i afresh at every step.
RunSubscribers(s, event, arg, id, mapAge, held, i, cleanup) ==
    LET cbs == IF s.unsubscribed = mapAge THEN s.subscribers[event] ELSE held
    IN IF s.threw THEN s
       ELSE IF i >= Len(cbs) THEN RunCleanup(s, event, mapAge, cleanup, 1)
       ELSE LET subscriber == cbs[i + 1]
                noted == [s EXCEPT !.calls =
                            Append(@, [cb |-> subscriber.cb, ev |-> event,
                                       arg |-> arg, by |-> id])]
            IN RunSubscribers(Invoke(noted, subscriber.cb, arg), event, arg,
                              id, mapAge, cbs, i + 1,
                              IF subscriber.once
                              THEN Append(cleanup, subscriber) ELSE cleanup)

\* for (const cb of cleanup) cb(), each cb being
\* () => cbs.splice(cbs.indexOf(subscriber), 1)
RunCleanup(s, event, mapAge, cleanup, k) ==
    IF k > Len(cleanup) THEN s
    ELSE IF s.unsubscribed # mapAge THEN s
    ELSE LET cbs == s.subscribers[event]
         IN RunCleanup([s EXCEPT !.subscribers[event] =
                           spliceOne(cbs, indexOf(cbs, cleanup[k]))],
                       event, mapAge, cleanup, k + 1)

\* The callbacks the model registers.
\*   resolveSubmit, resolveCancel: prompt()'s once('submit'), once('cancel')
\*   confirmSubmit: ConfirmPrompt's on('confirm'): take the answer, set the
\*                  state to submit and close
\*   confirmToggle: ConfirmPrompt's on('cursor'): flip the value
\*   finalizeHook:  a subscriber of 'finalize' that leaves the value alone
\*   listenerA, listenerB: subscribers that only take note of the call
\*   emitAgain:     a subscriber that emits 'key' with the data it was given,
\*                  unless it is already doing so
Invoke(s, cb, arg) ==
    CASE cb = "resolveSubmit" -> Resolve(s, s.value)
      [] cb = "resolveCancel" -> Resolve(s, cancel)
      [] cb = "confirmSubmit" ->
            close(SetState([s EXCEPT !.value = Bool(arg)], "submit"))
      [] cb = "confirmToggle" -> [s EXCEPT !.value = Bool(~Truthy(@))]
      [] cb = "finalizeHook" ->
            IF s.fault = "subscriber" THEN Throw(s) ELSE s
      [] cb = "emitAgain" ->
            IF cb \in s.emitting THEN s
            ELSE [emit([s EXCEPT !.emitting = @ \cup {cb}], "key", arg)
                    EXCEPT !.emitting = @ \ {cb}]
      [] OTHER -> s

\* close with the register cleared before the state's event is emitted.
closeUnsubscribingFirst(s) ==
    IF s.threw THEN s
    ELSE LET released ==
               setRawMode([s EXCEPT !.piped = FALSE, !.keypressOn = FALSE,
                                    !.newlines = @ + 1,
                                    !.closeCalls = @ + 1], FALSE)
             closed == unsubscribe([released EXCEPT !.rlClosed = TRUE])
         IN emit(closed, closed.state, closed.value)

\* close(): unpipe, detach onKeypress, write '\n', leave raw mode, close
\* readline, emit the state's own event with the value, clear the register.
close(s) ==
    IF s.threw THEN s
    ELSE LET released ==
               setRawMode([s EXCEPT !.piped = FALSE, !.keypressOn = FALSE,
                                    !.newlines = @ + 1,
                                    !.closeCalls = @ + 1], FALSE)
             closed == [released EXCEPT !.rlClosed = TRUE]
             emitted == emit(closed, closed.state, closed.value)
         IN IF emitted.threw THEN emitted ELSE unsubscribe(emitted)

----------------------------------------------------------------------------
\* The output stream and the terminal behind it.  Of the terminal the model
\* keeps the rows from the prompt's first row downwards, with room below,
\* and the cursor's row; every write of content is made with the cursor in
\* the first column (restoreCursor, erase.lines and '\n' put it there).

CursorHide == [op |-> "hide", n |-> 0, text |-> EmptyText]
CursorMove(dy) == [op |-> "move", n |-> dy, text |-> EmptyText]
EraseLine == [op |-> "eraseLine", n |-> 1, text |-> EmptyText]
EraseDown == [op |-> "eraseDown", n |-> 0, text |-> EmptyText]
Content(text) == [op |-> "text", n |-> 0, text |-> text]

\* A row put on the terminal: the written characters replace the row's first.
PutLine(rows, row, ln) ==
    LET padded == rows \o [k \in 1..(row + 1 - Len(rows)) |-> <<>>]
        old == padded[row + 1]
    IN [padded EXCEPT ![row + 1] = ln \o SubSeq(old, Len(ln) + 1, Len(old))]

RECURSIVE PutLines(_, _, _)
PutLines(rows, row, text) ==
    IF text = <<>> THEN rows
    ELSE PutLines(IF row < 0 THEN rows ELSE PutLine(rows, row, Head(text)),
                  row + 1, Tail(text))

\* Rows with the blank rows at the end left off.
RECURSIVE Shown(_)
Shown(rows) ==
    IF rows # <<>> /\ rows[Len(rows)] = <<>>
    THEN Shown(SubSeq(rows, 1, Len(rows) - 1)) ELSE rows

\* this.output.write(data)
outputWrite(s, w) ==
    LET logged == [s EXCEPT !.out = Append(@, w)]
    IN CASE w.op = "hide" -> [logged EXCEPT !.cursorHidden = TRUE]
         [] w.op = "move" -> [logged EXCEPT !.cursorRow = @ + w.n]
         [] w.op = "eraseLine" ->
               IF s.cursorRow < 0 \/ s.cursorRow >= Len(s.screen) THEN logged
               ELSE [logged EXCEPT
                       !.screen = Shown([@ EXCEPT ![s.cursorRow + 1] = <<>>])]
         [] w.op = "eraseDown" ->
               IF s.cursorRow >= Len(s.screen) THEN logged
               ELSE [logged EXCEPT !.screen = Shown(SubSeq(@, 1, s.cursorRow))]
         [] OTHER ->
               [logged EXCEPT
                  !.screen = Shown(PutLines(@, s.cursorRow, w.text)),
                  !.cursorRow = @ + Len(w.text) - 1]

----------------------------------------------------------------------------
\* Rendering.

\* wrap(text, columns, { hard: true }) on text without spaces: a line longer
\* than the width is cut into pieces of the width.
RECURSIVE hardWrapLine(_, _)
hardWrapLine(ln, cols) ==
    IF Len(ln) <= cols THEN <<ln>>
    ELSE <<SubSeq(ln, 1, cols)>>
             \o hardWrapLine(SubSeq(ln, cols + 1, Len(ln)), cols)

RECURSIVE wrap(_, _)
wrap(text, cols) ==
    IF text = <<>> THEN <<>>
    ELSE hardWrapLine(Head(text), cols) \o wrap(Tail(text), cols)

\* The decimal digits of a number, as a template literal prints it.
Digit(d) ==
    CASE d = 0 -> "0" [] d = 1 -> "1" [] d = 2 -> "2" [] d = 3 -> "3"
      [] d = 4 -> "4" [] d = 5 -> "5" [] d = 6 -> "6" [] d = 7 -> "7"
      [] d = 8 -> "8" [] OTHER -> "9"

RECURSIVE String(_)
String(n) ==
    IF n < 10 THEN <<Digit(n)>> ELSE String(n \div 10) \o <<Digit(n % 10)>>

\* How a render function prints the value.
ValueText(v) ==
    CASE v.type = "string" -> v.str
      [] v.type = "boolean" -> IF v.bool THEN <<"true">> ELSE <<"false">>
      [] OTHER -> <<v.type>>

\* this._render(this) ?? '': the themed render function prints, on one line,
\* the state, the value, the error and the terminal's width; an arbitrary
\* render function returns the text chosen for this call; a render function
\* returning no value gives ''.
Rendered(s) ==
    CASE renderFn = "void" -> EmptyText
      [] renderFn = "any" -> s.returns
      [] OTHER -> << <<s.state, ":">> \o ValueText(s.value)
                       \o <<":", s.error, ":">> \o String(s.columns) >>

\* wrap(this._render(this) ?? '', process.stdout.columns, { hard: true })
Frame(s) == wrap(Rendered(s), s.columns)

\* diffLines(a, b): the indices, from 0, at which the two texts' lines differ,
\* a line that one text lacks differing from any line.  For equal texts the
\* function returns nothing, which render treats like an empty list.
RECURSIVE DiffFrom(_, _, _)
DiffFrom(a, b, i) ==
    IF i >= Len(a) /\ i >= Len(b) THEN <<>>
    ELSE (IF i >= Len(a) \/ i >= Len(b) \/ a[i + 1] # b[i + 1]
          THEN <<i>> ELSE <<>>) \o DiffFrom(a, b, i + 1)

diffLines(a, b) == IF a = b THEN <<>> ELSE DiffFrom(a, b, 0)

\* restoreCursor(): to the first column, and up by the number of lines of the
\* previous frame, wrapped to the present width, less one.
restoreCursor(s) ==
    outputWrite(s, CursorMove(-(Len(wrap(s._prevFrame, s.columns)) - 1)))

\* render, lines 635-644: one line differs.  output.write(lines[diffLine])
\* with no such line is write(undefined), which throws.
PatchLine(s, frame, diffLine) ==
    LET erased == outputWrite(outputWrite(s, CursorMove(diffLine)), EraseLine)
    IN IF diffLine >= Len(frame) THEN Throw(erased)
       ELSE outputWrite(
                [outputWrite(erased, Content(<<frame[diffLine + 1]>>))
                   EXCEPT !._prevFrame = frame],
                CursorMove(Len(frame) - diffLine - 1))

\* RewriteTail erasing from the frame's first line and writing all of it.
RewriteTailFromTop(s, frame, diffLine) ==
    LET erased == outputWrite(outputWrite(s, CursorMove(0)), EraseDown)
    IN [outputWrite(erased, Content(frame)) EXCEPT !._prevFrame = frame]

\* render, lines 645-654: several lines differ.  lines.slice(diffLine) is
\* empty past the last line, and [].join('\n') is ''.
RewriteTail(s, frame, diffLine) ==
    LET erased == outputWrite(outputWrite(s, CursorMove(diffLine)), EraseDown)
        newLines == SubSeq(frame, diffLine + 1, Len(frame))
    IN [outputWrite(erased, Content(IF newLines = <<>> THEN EmptyText
                                    ELSE newLines))
          EXCEPT !._prevFrame = frame]

\* FirstPaint hiding the cursor without writing the frame.
FirstPaintOnlyHiding(s, frame) ==
    [SetState(outputWrite(s, CursorHide), "active")
        EXCEPT !._prevFrame = frame]

\* render, lines 629-630 and 659-663: in state initial the cursor is hidden,
\* the frame is written, the state becomes active and the frame is stored.
FirstPaint(s, frame) ==
    [SetState(outputWrite(outputWrite(s, CursorHide), Content(frame)),
              "active")
        EXCEPT !._prevFrame = frame]

\* render, lines 631-657 and 659-663: in any other state the cursor is put
\* back on the frame's first line and one line is patched or the tail
\* rewritten; with no differing line all is erased and written again.
Repaint(s, frame) ==
    LET diff == diffLines(s._prevFrame, frame)
        restored == restoreCursor(s)
    IN IF Len(diff) = 1 THEN PatchLine(restored, frame, diff[1])
       ELSE IF Len(diff) > 1 THEN RewriteTail(restored, frame, diff[1])
       ELSE [outputWrite(outputWrite(restored, EraseDown), Content(frame))
               EXCEPT !._prevFrame = frame]

\* What render notes of a call: where it started and the frame it produced.
Begin(s, frame) ==
    [s EXCEPT !.lastRender =
        [called |-> TRUE, prev |-> s._prevFrame, frame |-> frame,
         from |-> s.state, screen |-> s.screen, row |-> s.cursorRow]]

\* render without the test for an unchanged frame.
renderAlwaysPainting(s) ==
    IF s.threw THEN s
    ELSE IF s.fault = "render" THEN Throw(s)
    ELSE LET frame == Frame(s)
         IN IF s.state = "initial" THEN FirstPaint(Begin(s, frame), frame)
            ELSE Repaint(Begin(s, frame), frame)

\* render(): nothing happens when the frame is the previous one; otherwise
\* the first paint, or a repaint.  The render function may throw.
render(s) ==
    IF s.threw THEN s
    ELSE IF s.fault = "render" THEN Throw(s)
    ELSE LET frame == Frame(s)
         IN IF frame = s._prevFrame THEN Begin(s, frame)
            ELSE IF s.state = "initial"
                 THEN FirstPaint(Begin(s, frame), frame)
                 ELSE Repaint(Begin(s, frame), frame)

----------------------------------------------------------------------------
\* node:readline writing into the sink, and the sink's _write.

\* this.rl.line.replace(/\t/g, '')
RemoveTabs(chars) == SelectSeq(chars, LAMBDA c : c # "\t")

\* sinkWrite with the tab characters left in the value.
sinkWriteKeepingTabs(s) ==
    IF s.threw \/ ~_track THEN s
    ELSE LET v == Str(s.line)
         IN emit([s EXCEPT !.value = v], "value", v)

\* sink._write: in tracked mode the value follows the line buffer.
sinkWrite(s) ==
    IF s.threw \/ ~_track THEN s
    ELSE LET v == Str(RemoveTabs(s.line))
         IN emit([s EXCEPT !.value = v], "value", v)

\* rl.write(data): a non-empty string is inserted into the line buffer and
\* echoed to the sink; any other value inserts nothing.
rlWrite(s, data) ==
    IF s.threw THEN s
    ELSE IF data.type = "string" /\ data.str # <<>>
         THEN sinkWrite([s EXCEPT !.line = @ \o data.str])
         ELSE s

\* What reaches the sink and readline before onKeypress sees the key: the
\* piped chunk is written to the sink; then readline's own keypress listener
\* inserts a character (echoing it), or on return echoes the line end and
\* then empties the line buffer, or on ctrl-c closes the interface.
readlineKeypress(s, key) ==
    LET chunk == IF s.piped THEN sinkWrite(s) ELSE s
    IN IF chunk.rlClosed THEN chunk
       ELSE IF key.name = "return"
            THEN [sinkWrite(chunk) EXCEPT !.line = <<>>]
       ELSE IF key.char = ETX
            THEN [chunk EXCEPT !.rlClosed = TRUE]
       ELSE IF key \in TextKeys
            THEN sinkWrite([chunk EXCEPT !.line = Append(@, key.char),
                                         !.typed = Append(@, key.char)])
       ELSE chunk

----------------------------------------------------------------------------
\* opts.validate: the message for a rejected value, '' for an accepted one.
Validator(name, v) ==
    CASE name = "required" ->
            IF v.type = "string" /\ v.str = <<>> THEN "required" ELSE ""
      [] name = "mustAccept" ->
            IF v = Bool(TRUE) THEN "" ELSE "must accept"
      [] OTHER -> ""

\* RevertError left out: a key pressed in `error` is handled in `error`.
RevertErrorSkipped(s) == s

\* onKeypress, lines 480-482: a key pressed in `error` first reverts to active.
RevertError(s) == IF s.state = "error" THEN SetState(s, "active") ELSE s

\* DispatchKey translating an alias in tracked mode too.
DispatchKeyAliasAlways(s, key) ==
    LET aliased == IF key.name # "" /\ key.name \in DOMAIN aliases
                   THEN emit(s, "cursor", aliases[key.name]) ELSE s
        moved == IF key.name # "" /\ key.name \in keys
                 THEN emit(aliased, "cursor", key.name) ELSE aliased
        answered == IF key.char # NoChar /\ toLowerCase(key.char) \in {"y", "n"}
                    THEN emit(moved, "confirm", toLowerCase(key.char) = "y")
                    ELSE moved
    IN IF key.char # NoChar THEN emit(answered, "key", toLowerCase(key.char))
       ELSE answered

\* DispatchKey taking only the lower-case 'y' for a yes.
DispatchKeyCaseSensitive(s, key) ==
    LET aliased == IF key.name # "" /\ ~_track /\ key.name \in DOMAIN aliases
                   THEN emit(s, "cursor", aliases[key.name]) ELSE s
        moved == IF key.name # "" /\ key.name \in keys
                 THEN emit(aliased, "cursor", key.name) ELSE aliased
        answered == IF key.char # NoChar /\ toLowerCase(key.char) \in {"y", "n"}
                    THEN emit(moved, "confirm", key.char = "y")
                    ELSE moved
    IN IF key.char # NoChar THEN emit(answered, "key", toLowerCase(key.char))
       ELSE answered

\* onKeypress, lines 483-495: alias, cursor, confirm and key events.
DispatchKey(s, key) ==
    LET aliased == IF key.name # "" /\ ~_track /\ key.name \in DOMAIN aliases
                   THEN emit(s, "cursor", aliases[key.name]) ELSE s
        moved == IF key.name # "" /\ key.name \in keys
                 THEN emit(aliased, "cursor", key.name) ELSE aliased
        answered == IF key.char # NoChar /\ toLowerCase(key.char) \in {"y", "n"}
                    THEN emit(moved, "confirm", toLowerCase(key.char) = "y")
                    ELSE moved
    IN IF key.char # NoChar THEN emit(answered, "key", toLowerCase(key.char))
       ELSE answered

\* OnReturn without the `state !== 'error'` test before submitting.
OnReturnAlwaysSubmitting(s, key) ==
    IF s.threw \/ key.name # "return" THEN s
    ELSE IF validate # "none" /\ s.fault = "validate" THEN Throw(s)
    ELSE LET problem == Validator(validate, s.value)
             checked ==
               IF validate # "none" /\ problem # ""
               THEN rlWrite(SetState([s EXCEPT
                                        !.error = problem,
                                        !.errCount = IF @ < MaxErrors
                                                     THEN @ + 1 ELSE @],
                                     "error"),
                            s.value)
               ELSE s
         IN SetState(checked, "submit")

\* onKeypress, lines 496-508: return validates, then submits unless in error.
OnReturn(s, key) ==
    IF s.threw \/ key.name # "return" THEN s
    ELSE IF validate # "none" /\ s.fault = "validate" THEN Throw(s)
    ELSE LET problem == Validator(validate, s.value)
             checked ==
               IF validate # "none" /\ problem # ""
               THEN rlWrite(SetState([s EXCEPT
                                        !.error = problem,
                                        !.errCount = IF @ < MaxErrors
                                                     THEN @ + 1 ELSE @],
                                     "error"),
                            s.value)
               ELSE s
         IN IF checked.state # "error" THEN SetState(checked, "submit")
            ELSE checked

\* onKeypress, lines 509-511: the interrupt byte cancels.
OnInterrupt(s, key) ==
    IF ~s.threw /\ key.char = ETX THEN SetState(s, "cancel") ELSE s

\* onKeypress, lines 512-514
EmitFinalize(s) ==
    IF ~s.threw /\ s.state \in Terminal THEN emit(s, "finalize", "") ELSE s

\* onKeypress, lines 516-518
CloseIfDone(s) ==
    IF ~s.threw /\ s.state \in Terminal THEN close(s) ELSE s

onKeypress(s, key) ==
    CloseIfDone(render(EmitFinalize(OnInterrupt(OnReturn(
        DispatchKey(RevertError(s), key), key), key))))

----------------------------------------------------------------------------
\* The state after construction.

\* The callbacks and events of sessions that drive the register directly.
BusCallbacks == {"listenerA", "listenerB", "emitAgain"}
BusEvents == {"key", "cursor"}
BusData == {"x", "y"}

ConstructorSubscribers ==
    LET bare == [subscribers |-> [e \in Events |-> <<>>]]
        own == IF kind = "ConfirmPrompt"
               THEN on(on(bare, "confirm", "confirmSubmit"),
                       "cursor", "confirmToggle")
               ELSE bare
    IN IF finalizeHook THEN on(own, "finalize", "finalizeHook").subscribers
       ELSE own.subscribers

Widths == {40, 80}

InitConfig ==
    /\ kind \in {"Prompt", "ConfirmPrompt"}
    /\ _track = (kind = "Prompt")
    /\ validate \in (IF kind = "Prompt" THEN {"none", "required"}
                                      ELSE {"none", "mustAccept"})
    /\ renderFn \in {"themed", "void"}
    /\ initialValue \in (IF kind = "Prompt" THEN {Undefined, Str(<<"b">>)}
                                          ELSE {Bool(TRUE)})
    /\ isTTY \in BOOLEAN
    /\ finalizeHook \in BOOLEAN

InitSession ==
    /\ state = "initial"
    /\ value = (IF kind = "ConfirmPrompt" THEN Bool(Truthy(initialValue))
                                           ELSE Undefined)
    /\ error = ""
    /\ subscribers = ConstructorSubscribers
    /\ _prevFrame = EmptyText
    /\ unsubscribed = 0
    /\ line = <<>> /\ rlClosed = FALSE /\ rawMode = FALSE
    /\ keypressOn = FALSE /\ resizeOn = FALSE /\ piped = FALSE
    /\ cursorHidden = FALSE /\ newlines = 0
    /\ columns = 80
    /\ out = <<>> /\ screen = <<>> /\ cursorRow = 0 /\ lastRender = NoRender
    /\ pc = "constructed"
    /\ resolveCalls = 0 /\ resolvedWith = Undefined /\ atResolve = <<>>
    /\ closeCalls = 0 /\ finalizeLog = <<>> /\ events = <<>>
    /\ transitions = {} /\ errCount = 0 /\ typed = <<>>
    /\ lastKey = Key(NoChar, "")
    /\ keyState = "initial"
    /\ calls = <<>>
    /\ registry = {}
    /\ invocations = [cb \in BusCallbacks |-> 0]

\* No utility is in use during a prompt session.
NotBlocking ==
    [phase |-> "idle", overwrite |-> TRUE, hideCursor |-> TRUE,
     listening |-> FALSE, pending |-> "none", move |-> <<0, 0>>,
     hidden |-> FALSE, rawCalls |-> <<>>, rlOpen |-> FALSE,
     rlTerminal |-> TRUE, exited |-> FALSE, exitCode |-> 0,
     keypresses |-> 0, lastKey |-> Key(NoChar, ""), lastPhase |-> "idle"]
NotMeasuring == [input |-> <<>>, by |-> "none", length |-> 0]
NotFormatting ==
    [pc |-> "idle", text |-> <<>>, maxWidth |-> 80, start |-> <<>>,
     p |-> 1, w |-> 1, currentLine |-> <<>>, formattedLines |-> <<>>,
     chunk |-> <<>>, spins |-> 0, odd |-> FALSE, result |-> <<>>]
\* A file and a directory on the disk; a directory entry is named by its
\* position, a path is the sequence of the names from '/' down.
File == [dir |-> FALSE, entries |-> <<>>]
Directory(entries) == [dir |-> TRUE, entries |-> entries]
NoPath ==
    [disk |-> Directory(<<>>), onlyShowDir |-> FALSE,
     root |-> [name |-> <<>>, dir |-> TRUE, children |-> <<>>],
     _cursorMap |-> <<>>, value |-> <<>>, key |-> "none",
     before |-> [root |-> [name |-> <<>>, dir |-> TRUE, children |-> <<>>],
                 _cursorMap |-> <<>>]]
NotGrouping ==
    [prompts |-> 0, onCancel |-> "none", pc |-> "idle", i |-> 0,
     results |-> <<>>, active |-> {}, received |-> <<>>, outcomes |-> <<>>,
     onCancelCalls |-> <<>>, returned |-> <<>>]
NotSpinning ==
    [isSpinnerActive |-> FALSE, unblock |-> 0, loop |-> 0, released |-> <<>>,
     cleared |-> <<>>, last |-> "none", code |-> 0, typeError |-> FALSE,
     exited |-> FALSE, events |-> 0]
NotSelecting ==
    [options |-> 0, maxItems |-> Undefined, state |-> "initial", cursor |-> 0,
     slidingWindowLocation |-> 0, lines |-> <<>>, renders |-> 0, from |-> 0]
InitLater ==
    /\ grouping = NotGrouping /\ spinning = NotSpinning
    /\ selecting = NotSelecting
InitAside ==
    /\ blocker = NotBlocking /\ measure = NotMeasuring
    /\ formatter = NotFormatting /\ pathPrompt = NoPath
    /\ InitLater

Init == InitConfig /\ mayThrow = FALSE /\ InitSession /\ InitAside
InitThrow == InitConfig /\ mayThrow = TRUE /\ InitSession /\ InitAside

----------------------------------------------------------------------------
\* The operations.

Faults == {"render", "validate", "subscriber"}

\* prompt(): pipe the input into the sink, create the readline interface and
\* write its prompt, write the initial value, listen for keypresses, enter
\* raw mode, listen for resizes, render, and register the two once-callbacks
\* that resolve the promise.
promptBody(s) ==
    LET prompted == sinkWrite([s EXCEPT !.piped = TRUE])
        seeded == IF initialValue.type # "undefined" /\ _track
                  THEN rlWrite(prompted, initialValue) ELSE prompted
        raw == setRawMode([seeded EXCEPT !.keypressOn = TRUE], TRUE)
        painted == render([raw EXCEPT !.resizeOn = TRUE])
    IN IF painted.threw THEN painted
       ELSE once(once(painted, "submit", "resolveSubmit"),
                 "cancel", "resolveCancel")

prompt ==
    /\ pc = "constructed"
    /\ \E fault \in {"none", "render"} :
         /\ fault = "none" \/ mayThrow
         /\ LET s == promptBody([Cur(fault) EXCEPT !.events = <<>>, !.calls = <<>>])
            IN /\ Commit(s)
               /\ pc' = IF s.threw THEN "promptThrew" ELSE "prompting"
    /\ UNCHANGED <<config, lastKey, keyState, registry, invocations>>

\* One keypress on the input: the sink and readline see it first, then
\* onKeypress.  An exception leaving the handler is uncaught.
Keypress(key) ==
    /\ pc = "prompting"
    /\ keypressOn
    /\ key \in TextKeys => Len(typed) < MaxLen
    /\ \E fault \in Faults \cup {"none"} :
         /\ fault = "none" \/ mayThrow
         /\ LET s == onKeypress(readlineKeypress(
                         [Cur(fault) EXCEPT !.events = <<>>, !.calls = <<>>], key), key)
            IN /\ Commit(s)
               /\ pc' = IF s.threw THEN "keypressThrew" ELSE pc
    /\ lastKey' = key
    /\ keyState' = state
    /\ UNCHANGED <<config, registry, invocations>>

\* The terminal is resized: the 'resize' listener is render.
Resize ==
    /\ pc = "prompting"
    /\ resizeOn
    /\ \E w \in Widths \ {columns}, fault \in {"none", "render"} :
         /\ fault = "none" \/ mayThrow
         /\ LET s == render([Cur(fault) EXCEPT !.columns = w])
            IN /\ Commit(s)
               /\ pc' = IF s.threw THEN "resizeThrew" ELSE pc
    /\ UNCHANGED <<config, lastKey, keyState, registry, invocations>>

Next ==
    \/ prompt
    \/ \E key \in Keypresses : Keypress(key)
    \/ Resize

Spec == Init /\ [][Next]_vars
SpecThrow == InitThrow /\ [][Next]_vars

\* A session on the keyboard of vi-style letters.
NextAliases ==
    \/ prompt
    \/ \E key \in AliasKeypresses : Keypress(key)
    \/ Resize

SpecAliases == Init /\ [][NextAliases]_vars

\* A ConfirmPrompt on its own keyboard, starting from either answer.
InitConfirm ==
    /\ kind = "ConfirmPrompt" /\ _track = FALSE
    /\ validate \in {"none", "mustAccept"}
    /\ renderFn \in {"themed", "void"}
    /\ initialValue \in {Bool(TRUE), Bool(FALSE), Undefined}
    /\ isTTY \in BOOLEAN /\ finalizeHook \in BOOLEAN
    /\ mayThrow = FALSE /\ InitSession /\ InitAside

NextConfirm ==
    \/ prompt
    \/ \E key \in ConfirmKeypresses : Keypress(key)
    \/ Resize

SpecConfirm == InitConfirm /\ [][NextConfirm]_vars

----------------------------------------------------------------------------
\* The renderer driven directly: render() is called again and again, the
\* render function returning an arbitrary text each time.

RenderLines == {<<"a">>, <<"b">>}
Texts == {EmptyText} \cup UNION {[1..n -> RenderLines] : n \in 1..MaxLines}

InitRender ==
    /\ kind = "Prompt" /\ _track = TRUE /\ validate = "none"
    /\ renderFn = "any" /\ initialValue = Undefined /\ isTTY = TRUE
    /\ finalizeHook = FALSE /\ mayThrow = FALSE
    /\ InitSession /\ InitAside

Render(text) ==
    /\ pc = "constructed"
    /\ LET s == render([Cur("none") EXCEPT !.returns = text])
       IN /\ Len(s.screen) <= MaxRows /\ s.cursorRow < MaxRows
          /\ Commit(s)
          /\ pc' = IF s.threw THEN "renderThrew" ELSE pc
    /\ UNCHANGED <<config, lastKey, keyState, registry, invocations>>

NextRender == \E text \in Texts : Render(text)

SpecRender == InitRender /\ [][NextRender]_vars

----------------------------------------------------------------------------
\* The event register driven directly: on, once and emit are public methods
\* of a constructed Prompt.  Every callback is registered at most once, so a
\* subscriber object is identified by its callback.

InitBus ==
    /\ kind = "Prompt" /\ _track = TRUE /\ validate = "none"
    /\ renderFn = "themed" /\ initialValue = Undefined /\ isTTY = TRUE
    /\ finalizeHook = FALSE /\ mayThrow = FALSE
    /\ InitSession /\ InitAside

Registered(cb) == \E r \in registry : r.cb = cb

Register(s, event, cb, isOnce) ==
    /\ ~Registered(cb)
    /\ Commit(s)
    /\ registry' = registry \cup {[cb |-> cb, ev |-> event, once |-> isOnce]}
    /\ UNCHANGED <<config, pc, lastKey, keyState, invocations>>

On(event, cb) == Register(on(Cur("none"), event, cb), event, cb, FALSE)
Once(event, cb) == Register(once(Cur("none"), event, cb), event, cb, TRUE)

CallsOf(log, cb) == Len(SelectSeq(log, LAMBDA c : c.cb = cb))

Emit(event, arg) ==
    LET s == emit([Cur("none") EXCEPT !.events = <<>>, !.calls = <<>>],
                  event, arg)
    IN /\ Commit(s)
       /\ invocations' =
             [cb \in BusCallbacks |->
                 IF invocations[cb] + CallsOf(s.calls, cb) > MaxCalls
                 THEN MaxCalls ELSE invocations[cb] + CallsOf(s.calls, cb)]
       /\ UNCHANGED <<config, pc, lastKey, keyState, registry>>

NextBus ==
    \/ \E event \in BusEvents, cb \in BusCallbacks : On(event, cb)
    \/ \E event \in BusEvents, cb \in BusCallbacks : Once(event, cb)
    \/ \E event \in BusEvents, arg \in BusData : Emit(event, arg)

SpecBus == InitBus /\ [][NextBus]_vars

----------------------------------------------------------------------------
\* block() of utils.ts: it takes hold of the input until the function it
\* returns is called.  `clear` is its keypress listener, registered with
\* once; readline.moveCursor and readline.clearLine call their callbacks
\* after the write has completed, so each is a step of its own, and a
\* keypress or the release may come in between.

\* The prompt session stands still while block() is followed.
session == <<config, object, streams, history>>

BlockKeys == {InterruptKey, ReturnKey, Key("a", "a")}

\* block() entering raw mode whatever the input is.
blockRawModeAlways(b, tty) ==
    [b EXCEPT !.phase = "acquired", !.rlOpen = TRUE,
              !.rawCalls = Append(@, TRUE),
              !.hidden = IF b.hideCursor THEN TRUE ELSE @,
              !.listening = TRUE]

\* block(): createInterface, emitKeypressEvents, raw mode on a TTY, hide
\* the cursor, input.once('keypress', clear).
block(b, tty) ==
    [b EXCEPT !.phase = "acquired", !.rlOpen = TRUE,
              !.rawCalls = IF tty THEN Append(@, TRUE) ELSE @,
              !.hidden = IF b.hideCursor THEN TRUE ELSE @,
              !.listening = TRUE]

\* clear(data, key), lines 22-36, up to the call of readline.moveCursor.
clear(b, key) ==
    IF key.char = ETX THEN [b EXCEPT !.exited = TRUE, !.exitCode = 0]
    ELSE IF ~b.overwrite THEN b
    ELSE [b EXCEPT !.pending = "moveCursor",
                   !.move = IF key.name = "return" THEN <<0, -1>>
                                                   ELSE <<-1, 0>>]

\* input.emit('keypress', data, key): a once-listener is removed before it
\* is called; with no listener the keypress is heard by nobody.
inputKeypress(b, key) ==
    LET heard == [b EXCEPT !.lastKey = key, !.lastPhase = b.phase,
                           !.keypresses = @ + 1]
    IN IF b.listening THEN clear([heard EXCEPT !.listening = FALSE], key)
       ELSE heard

\* The function block() returns, lines 40-48.
release(b, tty) ==
    [b EXCEPT !.phase = "released", !.listening = FALSE,
              !.hidden = IF b.hideCursor THEN FALSE ELSE @,
              !.rawCalls = IF tty THEN Append(@, FALSE) ELSE @,
              !.rlTerminal = FALSE, !.rlOpen = FALSE]

InitBlock ==
    /\ kind = "Prompt" /\ _track = TRUE /\ validate = "none"
    /\ renderFn = "themed" /\ initialValue = Undefined
    /\ isTTY \in BOOLEAN
    /\ finalizeHook = FALSE /\ mayThrow = FALSE
    /\ InitSession
    /\ \E o \in BOOLEAN, h \in BOOLEAN :
          blocker = [NotBlocking EXCEPT !.overwrite = o, !.hideCursor = h]
    /\ measure = NotMeasuring /\ formatter = NotFormatting
    /\ pathPrompt = NoPath /\ InitLater

Running == ~blocker.exited

Acquire ==
    /\ blocker.phase = "idle"
    /\ blocker' = block(blocker, isTTY)
    /\ UNCHANGED <<session, measure, formatter, pathPrompt, later>>

BlockKeypress(key) ==
    /\ Running /\ blocker.phase # "idle"
    /\ blocker.keypresses < MaxKeys
    /\ blocker' = inputKeypress(blocker, key)
    /\ UNCHANGED <<session, measure, formatter, pathPrompt, later>>

\* The callback of readline.moveCursor, lines 31-35: readline.clearLine.
MoveCursorDone ==
    /\ Running /\ blocker.pending = "moveCursor"
    /\ blocker' = [blocker EXCEPT !.pending = "clearLine"]
    /\ UNCHANGED <<session, measure, formatter, pathPrompt, later>>

\* The callback of readline.clearLine, lines 32-34: input.once again.
ClearLineDone ==
    /\ Running /\ blocker.pending = "clearLine"
    /\ blocker' = [blocker EXCEPT !.pending = "none", !.listening = TRUE]
    /\ UNCHANGED <<session, measure, formatter, pathPrompt, later>>

Release ==
    /\ Running /\ blocker.phase = "acquired"
    /\ blocker' = release(blocker, isTTY)
    /\ UNCHANGED <<session, measure, formatter, pathPrompt, later>>

NextBlock ==
    \/ Acquire
    \/ \E key \in BlockKeys : BlockKeypress(key)
    \/ MoveCursorDone
    \/ ClearLineDone
    \/ Release

SpecBlock == InitBlock /\ [][NextBlock]_vars

----------------------------------------------------------------------------
\* strLength: the number of terminal columns a string takes.  The sources
\* hold three functions of that name: strLength (utils.ts:76-101, on
\* stripAnsi and code points), strLengthWide (utils.ts:153-171, the same
\* text as strLength of prompts/src/index.ts, counting two columns for some
\* characters) and strLengthScan (unnamed/part_000:51-79, scanning for the
\* 'm' that ends a colour sequence).
\*
\* A string is the sequence of its UTF-16 code units.  A regular expression
\* is a tree of classes, sequences, alternatives and greedy repetitions;
\* Ends gives the positions at which a match starting after `i` units may
\* end, in the order in which a backtracking matcher tries them, so that
\* the match found is the first of them.

ESC == 27          \* '\u001B'
CSI == 155         \* '\u009B'
BEL == 7           \* '\u0007'

Cls(set) == [t |-> "class", set |-> set, items |-> <<>>, min |-> 0, max |-> 0]
Cat(items) == [t |-> "seq", set |-> {}, items |-> items, min |-> 0, max |-> 0]
Alt(items) == [t |-> "alt", set |-> {}, items |-> items, min |-> 0, max |-> 0]
\* r{min,max}; a negative max stands for no upper limit.
Rep(r, min, max) ==
    [t |-> "rep", set |-> {}, items |-> <<r>>, min |-> min, max |-> max]
Star(r) == Rep(r, 0, -1)
Plus(r) == Rep(r, 1, -1)
Opt(r) == Rep(r, 0, 1)

RECURSIVE Ends(_, _, _), CatEnds(_, _, _, _), CatAfter(_, _, _, _, _),
          AltEnds(_, _, _, _), RepEnds(_, _, _, _, _),
          RepAfter(_, _, _, _, _, _, _)

Ends(r, s, i) ==
    CASE r.t = "class" ->
            IF i < Len(s) /\ s[i + 1] \in r.set THEN <<i + 1>> ELSE <<>>
      [] r.t = "seq" -> CatEnds(r.items, 1, s, i)
      [] r.t = "alt" -> AltEnds(r.items, 1, s, i)
      [] OTHER -> RepEnds(r.items[1], r.min, r.max, s, i)

CatEnds(items, k, s, i) ==
    IF k > Len(items) THEN <<i>>
    ELSE CatAfter(Ends(items[k], s, i), 1, items, k, s)

CatAfter(ends, j, items, k, s) ==
    IF j > Len(ends) THEN <<>>
    ELSE CatEnds(items, k + 1, s, ends[j]) \o CatAfter(ends, j + 1, items, k, s)

AltEnds(items, k, s, i) ==
    IF k > Len(items) THEN <<>>
    ELSE Ends(items[k], s, i) \o AltEnds(items, k + 1, s, i)

\* One more iteration is tried before stopping; an iteration that matches
\* the empty string once the minimum is reached is rejected.
RepEnds(r, min, max, s, i) ==
    (IF max = 0 THEN <<>> ELSE RepAfter(Ends(r, s, i), 1, r, min, max, s, i))
        \o (IF min <= 0 THEN <<i>> ELSE <<>>)

RepAfter(ends, j, r, min, max, s, i) ==
    IF j > Len(ends) THEN <<>>
    ELSE (IF ends[j] = i /\ min <= 0 THEN <<>>
          ELSE RepEnds(r, IF min > 0 THEN min - 1 ELSE 0,
                       IF max > 0 THEN max - 1 ELSE max, s, ends[j]))
         \o RepAfter(ends, j + 1, r, min, max, s, i)

\* str.replace(re, '') with the flag g, from unit i on.
RECURSIVE replace(_, _, _)
replace(re, s, i) ==
    IF i >= Len(s) THEN <<>>
    ELSE LET m == Ends(re, s, i)
         IN IF m # <<>> /\ Head(m) > i THEN replace(re, s, Head(m))
            ELSE <<s[i + 1]>> \o replace(re, s, i + 1)

\* The character classes of the patterns.
Digits == 48..57                                \* \d
AlNum == (97..122) \cup (65..90) \cup Digits     \* a-zA-Z\d
Intro == {91, 93, 40, 41, 35, 59, 63}           \* [[\]()#;?]
\* [-a-zA-Z\d\/#&.:=?%@~_]
OscChars == AlNum \cup {45, 47, 35, 38, 46, 58, 61, 63, 37, 64, 126, 95}
\* [\dA-PR-TZcf-ntqry=><~]
Final == Digits \cup (65..80) \cup (82..84) \cup {90, 99} \cup (102..110)
            \cup {116, 113, 114, 121, 61, 62, 60, 126}
\* [\dA-PR-TZcf-nq-uy=><~]
FinalWide == Digits \cup (65..80) \cup (82..84) \cup {90, 99} \cup (102..110)
                \cup (113..117) \cup {121, 61, 62, 60, 126}

\* (?:\d{1,4}(?:;\d{0,4})*)?
CsiParams ==
    Opt(Cat(<<Rep(Cls(Digits), 1, 4),
              Star(Cat(<<Cls({59}), Rep(Cls(Digits), 0, 4)>>))>>))

\* ansiRegex() of utils.ts:51-58.
ansiRegex ==
    Cat(<<Cls({ESC, CSI}), Star(Cls(Intro)),
          Alt(<<Cat(<<Opt(Cat(<<Star(Cls(AlNum)),
                                Star(Cat(<<Cls({59}), Star(Cls(OscChars))>>))>>)),
                      Cls({BEL})>>),
                Cat(<<CsiParams, Cls(Final)>>)>>)>>)

stripAnsi(str) == replace(ansiRegex, str, 0)

\* /\x1B\[[0-9;]*[mG]/g
colorCodeRegex ==
    Cat(<<Cls({ESC}), Cls({91}), Star(Cls(Digits \cup {59})), Cls({109, 71})>>)

\* The ansiRegex of utils.ts:157-163.
ansiRegexWide ==
    Cat(<<Cls({ESC, CSI}), Star(Cls(Intro)),
          Alt(<<Cat(<<Opt(Alt(<<Star(Cat(<<Cls({59}), Plus(Cls(OscChars))>>)),
                                Cat(<<Plus(Cls(AlNum)),
                                      Star(Cat(<<Cls({59}),
                                                 Star(Cls(OscChars))>>))>>)>>)),
                      Cls({BEL})>>),
                Cat(<<CsiParams, Cls(FinalWide)>>)>>)>>)

isControlCharacter(code) == code <= 31 \/ (code >= 127 /\ code <= 159)
isCombiningCharacter(code) == code >= 768 /\ code <= 879
\* code >= 0xd800 && code <= 0xdbff: a leading surrogate.
isSurrogatePair(code) == code >= 55296 /\ code <= 56319
isTrailSurrogate(code) == code >= 56320 /\ code <= 57343

\* str.codePointAt(i), i counted from 0.
codePointAt(str, i) ==
    IF isSurrogatePair(str[i + 1]) /\ i + 1 < Len(str)
       /\ isTrailSurrogate(str[i + 2])
    THEN 65536 + (str[i + 1] - 55296) * 1024 + (str[i + 2] - 56320)
    ELSE str[i + 1]

\* The loop of utils.ts:86-98.
RECURSIVE CountCodePoints(_, _)
CountCodePoints(str, i) ==
    IF i >= Len(str) THEN 0
    ELSE LET code == codePointAt(str, i)
         IN IF code = 0 \/ isControlCharacter(code) \/ isCombiningCharacter(code)
            THEN CountCodePoints(str, i + 1)
            ELSE 1 + CountCodePoints(str, IF isSurrogatePair(code) THEN i + 2
                                                                  ELSE i + 1)

\* strLength of utils.ts:76-101.
strLength(str) ==
    IF str = <<>> THEN 0 ELSE CountCodePoints(stripAnsi(str), 0)

\* [...str]: one element for each code point, given by its first unit.
RECURSIVE Spread(_, _)
Spread(str, i) ==
    IF i >= Len(str) THEN <<>>
    ELSE IF codePointAt(str, i) > 65535
         THEN <<str[i + 1]>> \o Spread(str, i + 2)
         ELSE <<str[i + 1]>> \o Spread(str, i + 1)

RECURSIVE SumColumns(_, _)
SumColumns(arr, k) ==
    IF k > Len(arr) THEN 0
    ELSE (IF arr[k] > 127 \/ arr[k] = 94 THEN 2 ELSE 1) + SumColumns(arr, k + 1)

\* strLength of utils.ts:153-171.
strLengthWide(str) ==
    IF str = <<>> THEN 0
    ELSE SumColumns(Spread(replace(ansiRegexWide,
                                   replace(colorCodeRegex, str, 0), 0), 0), 1)

\* input.indexOf('m', from), from counted from 0; -1 when there is none.
indexOf_m(input, from) ==
    IF \E j \in (from + 1)..Len(input) : input[j] = 109
    THEN (CHOOSE j \in (from + 1)..Len(input) :
             /\ input[j] = 109
             /\ \A k \in (from + 1)..(j - 1) : input[k] # 109) - 1
    ELSE -1

\* strLength of unnamed/part_000:51-79, from unit i on.
RECURSIVE ScanFrom(_, _)
ScanFrom(input, i) ==
    IF i >= Len(input) THEN 0
    ELSE IF input[i + 1] = ESC
         THEN LET endIndex == indexOf_m(input, i + 1)
              IN IF endIndex = -1 THEN ScanFrom(input, i + 1)
                 ELSE ScanFrom(input, endIndex + 1)
         ELSE IF isSurrogatePair(input[i + 1]) THEN ScanFrom(input, i + 2)
              ELSE 1 + ScanFrom(input, i + 1)

strLengthScan(input) == ScanFrom(input, 0)

\* The strings measured: up to MaxPieces of these, one after another.
\* ESC[31m, ESC[0m, ESC[2K (erase line), ESC, '[', '3', ';', 'm', 'a', '^',
\* '\n', U+0301 (combining acute accent), U+1F600 as its surrogate pair.
Pieces ==
    {<<ESC, 91, 51, 49, 109>>, <<ESC, 91, 48, 109>>, <<ESC, 91, 50, 75>>,
     <<ESC>>, <<91>>, <<51>>, <<59>>, <<109>>, <<97>>, <<94>>, <<10>>,
     <<769>>, <<55357, 56832>>}

RECURSIVE Join(_, _)
Join(pieces, k) ==
    IF k > Len(pieces) THEN <<>> ELSE pieces[k] \o Join(pieces, k + 1)

Inputs == {Join(ps, 1) : ps \in UNION {[1..n -> Pieces] : n \in 0..MaxPieces}}

InitMeasure ==
    /\ kind = "Prompt" /\ _track = TRUE /\ validate = "none"
    /\ renderFn = "themed" /\ initialValue = Undefined /\ isTTY = TRUE
    /\ finalizeHook = FALSE /\ mayThrow = FALSE
    /\ InitSession
    /\ blocker = NotBlocking
    /\ formatter = NotFormatting /\ pathPrompt = NoPath /\ InitLater
    /\ \E str \in Inputs : measure = [NotMeasuring EXCEPT !.input = str]

Measured(version, n) ==
    /\ measure.by = "none"
    /\ measure' = [measure EXCEPT !.by = version, !.length = n]
    /\ UNCHANGED <<session, blocker, formatter, pathPrompt, later>>

StrLength == Measured("strLength", strLength(measure.input))
StrLengthWide == Measured("strLengthWide", strLengthWide(measure.input))
StrLengthScan == Measured("strLengthScan", strLengthScan(measure.input))

NextMeasure == StrLength \/ StrLengthWide \/ StrLengthScan

SpecMeasure == InitMeasure /\ [][NextMeasure]_vars

----------------------------------------------------------------------------
\* Prompt.format: wrap a text to maxWidth columns, word by word, and put
\* the line decoration around each line.  One call is followed step by
\* step: a word of the inner for loop, an evaluation of the while
\* condition of the hard split, the end of a paragraph, the return.

\* str.slice(from, to): negative indices count from the end.
sliceIndex(str, k) ==
    IF k < 0 THEN (IF Len(str) + k < 0 THEN 0 ELSE Len(str) + k)
    ELSE IF k > Len(str) THEN Len(str) ELSE k
slice(str, from, to) ==
    SubSeq(str, sliceIndex(str, from) + 1, sliceIndex(str, to))

\* str.split(separator), each separator being one character of `seps`.
RECURSIVE split(_, _, _, _)
split(str, seps, k, piece) ==
    IF k > Len(str) THEN <<piece>>
    ELSE IF str[k] \in seps THEN <<piece>> \o split(str, seps, k + 1, <<>>)
         ELSE split(str, seps, k + 1, Append(piece, str[k]))

\* /\n/g and the characters of /\s/g that the texts hold.
LineFeed == {10}
WhiteSpace == {32, 10}

paragraphs(f) == split(f.text, LineFeed, 1, <<>>)
words(f) == split(paragraphs(f)[f.p], WhiteSpace, 1, <<>>)

\* The options of a call: default.start is '' or a bar, default.end is ''
\* and no line has a style, so all three kinds of line are decorated alike.
Starts == {<<>>, <<124>>}
emptySlots(f) == strLength(f.start \o <<>>) + 2
chunkLength(f) == f.maxWidth - emptySlots(f)

\* The branch of lines 579-584, up to the while loop.
HardSplitStart(f, word) ==
    LET splitIndex == f.maxWidth - strLength(f.currentLine) - emptySlots(f) - 1
    IN [f EXCEPT !.formattedLines =
                     Append(@, f.currentLine \o <<32>>
                                   \o slice(word, 0, splitIndex)),
                 !.chunk = slice(word, splitIndex, Len(word)),
                 !.pc = "split"]

\* The body of `for (const word of words)` for one word, lines 577-593.
formatWord(f, word) ==
    IF strLength(f.currentLine \o word) + emptySlots(f) + 1 <= f.maxWidth
    THEN [f EXCEPT !.currentLine = @ \o <<32>> \o word, !.w = @ + 1]
    ELSE IF strLength(word) + emptySlots(f) >= f.maxWidth
         THEN HardSplitStart(f, word)
         ELSE [f EXCEPT !.formattedLines = Append(@, f.currentLine),
                        !.currentLine = word, !.w = @ + 1]

\* One evaluation of the while condition, lines 585-589.  `spins` counts
\* the rounds in a row that left `chunk` as it was, up to MaxSpins: the
\* condition reads nothing else, so such a round is followed by the same
\* round for ever.  Of the lines these rounds push the first MaxSpins are
\* kept, and of the rounds after them whether their number is odd.
hardSplit(f) ==
    LET rest == slice(f.chunk, chunkLength(f), Len(f.chunk))
    IN IF strLength(f.chunk) > chunkLength(f)
       THEN IF rest = f.chunk /\ f.spins >= MaxSpins
            THEN [f EXCEPT !.odd = ~@]
            ELSE [f EXCEPT !.formattedLines =
                               Append(@, slice(f.chunk, 0, chunkLength(f))),
                           !.chunk = rest,
                           !.spins = IF rest = f.chunk THEN @ + 1 ELSE 0]
       ELSE [f EXCEPT !.currentLine = f.chunk, !.chunk = <<>>, !.pc = "word",
                      !.w = @ + 1]

\* [startLine, styleLine(line), endLine].join(' ')
decorate(f, ln) == f.start \o <<32>> \o ln \o <<32>> \o <<>>

FormatTexts == UNION {[1..n -> {97, 32, 10}] : n \in 0..MaxText}

InitFormat ==
    /\ kind = "Prompt" /\ _track = TRUE /\ validate = "none"
    /\ renderFn = "themed" /\ initialValue = Undefined /\ isTTY = TRUE
    /\ finalizeHook = FALSE /\ mayThrow = FALSE
    /\ InitSession
    /\ blocker = NotBlocking /\ measure = NotMeasuring
    /\ pathPrompt = NoPath /\ InitLater
    /\ \E text \in FormatTexts, maxWidth \in (-1)..MaxWidth, start \in Starts :
          formatter = [NotFormatting EXCEPT !.pc = "word", !.text = text,
                                            !.maxWidth = maxWidth,
                                            !.start = start]

FormatStep(f) ==
    /\ formatter' = f
    /\ UNCHANGED <<session, blocker, measure, pathPrompt, later>>

FormatWord ==
    /\ formatter.pc = "word"
    /\ formatter.p <= Len(paragraphs(formatter))
    /\ formatter.w <= Len(words(formatter))
    /\ FormatStep(formatWord(formatter, words(formatter)[formatter.w]))

HardSplit ==
    /\ formatter.pc = "split"
    /\ FormatStep(hardSplit(formatter))

\* formattedLines.push(currentLine), line 596, and the next paragraph.
EndParagraph ==
    /\ formatter.pc = "word"
    /\ formatter.p <= Len(paragraphs(formatter))
    /\ formatter.w > Len(words(formatter))
    /\ FormatStep([formatter EXCEPT
                       !.formattedLines = Append(@, formatter.currentLine),
                       !.currentLine = <<>>, !.p = @ + 1, !.w = 1])

\* return formattedLines.map(...).join('\n'), as the list of its lines.
FormatReturn ==
    /\ formatter.pc = "word"
    /\ formatter.p > Len(paragraphs(formatter))
    /\ FormatStep([formatter EXCEPT
                       !.pc = "done",
                       !.result = [k \in DOMAIN formatter.formattedLines |->
                                      decorate(formatter,
                                               formatter.formattedLines[k])]])

NextFormat == FormatWord \/ HardSplit \/ EndParagraph \/ FormatReturn

SpecFormat == InitFormat /\ [][NextFormat]_vars
\* The call runs on: a step that can be taken is taken.
SpecFormatFair == SpecFormat /\ WF_vars(NextFormat)

----------------------------------------------------------------------------
\* PathPrompt in select mode.  `root` is the tree shown, a node being its
\* name, whether it has a `children` array (a directory) and that array;
\* `_cursorMap` holds JavaScript indices, counted from 0.

\* aux.children && aux.children[index]
hasChild(node, index) ==
    node.dir /\ index >= 0 /\ index < Len(node.children)

\* The indices the loop of `option` steps down by: an index with no node
\* under it is passed over and the next one is tried on the same node.
RECURSIVE Followed(_, _, _)
Followed(node, cursorMap, k) ==
    IF k > Len(cursorMap) THEN <<>>
    ELSE IF hasChild(node, cursorMap[k])
         THEN <<cursorMap[k]>>
                  \o Followed(node.children[cursorMap[k] + 1], cursorMap, k + 1)
         ELSE Followed(node, cursorMap, k + 1)

RECURSIVE NodeAt(_, _)
NodeAt(node, indices) ==
    IF indices = <<>> THEN node
    ELSE NodeAt(node.children[Head(indices) + 1], Tail(indices))

\* get option()
option(t) ==
    [index |-> IF t._cursorMap = <<>> THEN 0
               ELSE t._cursorMap[Len(t._cursorMap)],
     depth |-> Len(t._cursorMap),
     node |-> NodeAt(t.root, Followed(t.root, t._cursorMap, 1))]

\* get _layer(): the array that holds the last node stepped down to; the
\* loop stops at the first index with no node under it.
RECURSIVE LayerFrom(_, _, _, _)
LayerFrom(node, cursorMap, k, options) ==
    IF k > Len(cursorMap) THEN options
    ELSE IF hasChild(node, cursorMap[k])
         THEN LayerFrom(node.children[cursorMap[k] + 1], cursorMap, k + 1,
                        node.children)
         ELSE options
_layer(t) == LayerFrom(t.root, t._cursorMap, 1, <<>>)

\* get _selectValue(): resolve(this.root.name, ...value)
RECURSIVE NamesAlong(_, _)
NamesAlong(node, indices) ==
    IF indices = <<>> THEN <<>>
    ELSE node.children[Head(indices) + 1].name
             \o NamesAlong(node.children[Head(indices) + 1], Tail(indices))
_selectValue(t) ==
    t.root.name \o NamesAlong(t.root, Followed(t.root, t._cursorMap, 1))

RECURSIVE lookup(_, _)
lookup(entry, path) ==
    IF path = <<>> THEN entry ELSE lookup(entry.entries[Head(path)], Tail(path))

\* mapDir(path): readdirSync, a directory getting an empty array of
\* children and a file none, filtered by onlyShowDir.
mapDir(t, path) ==
    LET entries == lookup(t.disk, path).entries
        listing == [i \in DOMAIN entries |->
                       [name |-> <<i>>, dir |-> entries[i].dir,
                        children |-> <<>>]]
    IN SelectSeq(listing, LAMBDA node : t.onlyShowDir => node.dir)

\* this.option.node.children = children
RECURSIVE setChildren(_, _, _)
setChildren(node, indices, children) ==
    IF indices = <<>> THEN [node EXCEPT !.children = children]
    ELSE [node EXCEPT !.children[Head(indices) + 1] =
                          setChildren(@, Tail(indices), children)]

\* this._cursorMap.slice(0, -1)
dropLast(cursorMap) ==
    IF cursorMap = <<>> THEN <<>> ELSE SubSeq(cursorMap, 1, Len(cursorMap) - 1)

\* case 'up'
up(t) ==
    IF t._cursorMap # <<>>
    THEN [t EXCEPT !._cursorMap =
             Append(dropLast(@), IF option(t).index > 0 THEN option(t).index - 1
                                 ELSE Len(_layer(t)) - 1)]
    ELSE t

\* case 'down'
down(t) ==
    IF t._cursorMap # <<>>
    THEN [t EXCEPT !._cursorMap =
             Append(dropLast(@), IF option(t).index < Len(_layer(t)) - 1
                                 THEN option(t).index + 1 ELSE 0)]
    ELSE t

\* 'right' stepping down whatever the listing holds.
rightAlwaysDescending(t) ==
    IF option(t).node.dir
    THEN LET children == mapDir(t, _selectValue(t))
         IN [t EXCEPT !.root = setChildren(@, Followed(t.root, t._cursorMap, 1),
                                           children),
                      !._cursorMap = Append(@, 0)]
    ELSE t

\* case 'right'
right(t) ==
    IF option(t).node.dir
    THEN LET children == mapDir(t, _selectValue(t))
         IN [t EXCEPT !.root = setChildren(@, Followed(t.root, t._cursorMap, 1),
                                           children),
                      !._cursorMap = IF children # <<>> THEN Append(@, 0) ELSE @]
    ELSE t

\* resolve(this.root.name, '..'): the parent of '/' is '/' itself.
parent(path) == dropLast(path)

\* 'left' never emptying the children of the node it returns to.
leftKeepingChildren(t) ==
    LET prevCursor == t._cursorMap
        moved == [t EXCEPT !._cursorMap = dropLast(@)]
    IN IF prevCursor = <<>>
       THEN [moved EXCEPT !.root =
                [name |-> parent(t.root.name), dir |-> TRUE,
                 children |-> mapDir(t, parent(t.root.name))]]
       ELSE moved

\* case 'left'
left(t) ==
    LET prevCursor == t._cursorMap
        moved == [t EXCEPT !._cursorMap = dropLast(@)]
    IN IF option(moved).node.dir /\ option(moved).node.children # <<>>
          /\ moved._cursorMap # <<>>
       THEN [moved EXCEPT !.root =
                setChildren(@, Followed(moved.root, moved._cursorMap, 1), <<>>)]
       ELSE IF prevCursor = <<>>
            THEN [moved EXCEPT !.root =
                     [name |-> parent(t.root.name), dir |-> TRUE,
                      children |-> mapDir(t, parent(t.root.name))]]
            ELSE moved

\* The 'cursor' subscriber of select mode, lines 171-213.
onCursor(t, key) ==
    LET moved == CASE key = "up" -> up(t)
                   [] key = "down" -> down(t)
                   [] key = "right" -> right(t)
                   [] OTHER -> left(t)
    IN [moved EXCEPT !.value = _selectValue(moved), !.key = key,
                     !.before = [root |-> t.root, _cursorMap |-> t._cursorMap]]

\* The disks: '/' holds the working directory alone, and the working
\* directory up to MaxSiblings entries, each a file, an empty directory or
\* a directory of two files.
Entries == {File, Directory(<<>>), Directory(<<File, File>>)}
Disks ==
    {Directory(<<Directory(es)>>) :
        es \in UNION {[1..n -> Entries] : n \in 0..MaxSiblings}}
cwd == <<1>>

\* new PathPrompt({ type: 'select', onlyShowDir }), lines 148-169.
PathPrompt(disk, onlyShowDir) ==
    LET t == [NoPath EXCEPT !.disk = disk, !.onlyShowDir = onlyShowDir]
        made == [t EXCEPT !._cursorMap = <<0>>,
                          !.root = [name |-> cwd, dir |-> TRUE,
                                    children |-> mapDir(t, cwd)]]
    IN [made EXCEPT !.value = _selectValue(made),
                    !.before = [root |-> made.root,
                                _cursorMap |-> made._cursorMap]]

InitPath ==
    /\ kind = "Prompt" /\ _track = FALSE /\ validate = "none"
    /\ renderFn = "themed" /\ initialValue = Undefined /\ isTTY = TRUE
    /\ finalizeHook = FALSE /\ mayThrow = FALSE
    /\ InitSession
    /\ blocker = NotBlocking /\ measure = NotMeasuring
    /\ formatter = NotFormatting /\ InitLater
    /\ \E disk \in Disks, onlyShowDir \in BOOLEAN :
          pathPrompt = PathPrompt(disk, onlyShowDir)

Cursor(key) ==
    /\ pathPrompt' = onCursor(pathPrompt, key)
    /\ UNCHANGED <<session, blocker, measure, formatter, later>>

NextPath == \E key \in {"up", "down", "left", "right"} : Cursor(key)

SpecPath == InitPath /\ [][NextPath]_vars

----------------------------------------------------------------------------
\* group(prompts, opts): the prompts are named by their place in
\* Object.keys(prompts), 1..prompts.  results is the one object every prompt
\* is handed; received[name] is the set of its keys when prompt name was
\* called, active the prompts whose promise has not settled.  A prompt
\* returns a promise or nothing; its promise resolves to a value, to
\* undefined or to the cancel symbol, or is rejected.  onCancel is "none"
\* when opts holds no function, otherwise what the callback does: it returns
\* or it ends the process.

canceled == Str(<<"c", "a", "n", "c", "e", "l", "e", "d">>)

Resolutions == {Str(<<"a">>), Undefined, cancel}
Rejection == [type |-> "rejection"]

group(prompts, onCancel) ==
    [NotGrouping EXCEPT !.prompts = prompts, !.onCancel = onCancel,
                        !.pc = "for", !.i = 1]

\* The call prompt({ results }) with a fresh object in place of results.
invokeWithFreshResults(g, promise) ==
    [g EXCEPT !.pc = "await",
              !.received = (g.i :> {}) @@ g.received,
              !.active = IF promise THEN g.active \cup {g.i} ELSE g.active]

\* const result = await prompt({ results })?.catch(...), up to the await.
invoke(g, promise) ==
    [g EXCEPT !.pc = "await",
              !.received = (g.i :> DOMAIN g.results) @@ g.received,
              !.active = IF promise THEN g.active \cup {g.i} ELSE g.active]

\* The rest of the loop body with the loop left after onCancel returned.
resumeLeavingTheLoop(g, outcome) ==
    LET name == g.i
        settled == [g EXCEPT !.active = g.active \ {name},
                             !.outcomes = (name :> outcome) @@ g.outcomes]
    IN IF outcome = Rejection
       THEN [settled EXCEPT !.pc = "rejected"]
       ELSE IF g.onCancel # "none" /\ isCancel(outcome)
       THEN LET results == (name :> canceled) @@ g.results
            IN [settled EXCEPT
                   !.results = results,
                   !.onCancelCalls =
                       Append(g.onCancelCalls,
                              [name |-> name, results |-> results]),
                   !.pc = IF g.onCancel = "exits" THEN "exited" ELSE "for",
                   !.i = g.prompts + 1]
       ELSE [settled EXCEPT !.results = (name :> outcome) @@ g.results,
                            !.pc = "for", !.i = name + 1]

\* The loop body from the point the awaited promise settled.
resume(g, outcome) ==
    LET name == g.i
        settled == [g EXCEPT !.active = g.active \ {name},
                             !.outcomes = (name :> outcome) @@ g.outcomes]
    IN IF outcome = Rejection
       THEN [settled EXCEPT !.pc = "rejected"]
       ELSE IF g.onCancel # "none" /\ isCancel(outcome)
       THEN LET results == (name :> canceled) @@ g.results
            IN [settled EXCEPT
                   !.results = results,
                   !.onCancelCalls =
                       Append(g.onCancelCalls,
                              [name |-> name, results |-> results]),
                   !.pc = IF g.onCancel = "exits" THEN "exited" ELSE "for",
                   !.i = name + 1]
       ELSE [settled EXCEPT !.results = (name :> outcome) @@ g.results,
                            !.pc = "for", !.i = name + 1]

InitIdle ==
    /\ kind = "Prompt" /\ _track = FALSE /\ validate = "none"
    /\ renderFn = "themed" /\ initialValue = Undefined /\ isTTY = TRUE
    /\ finalizeHook = FALSE /\ mayThrow = FALSE
    /\ InitSession
    /\ blocker = NotBlocking /\ measure = NotMeasuring
    /\ formatter = NotFormatting /\ pathPrompt = NoPath

InitGroup ==
    /\ InitIdle
    /\ \E prompts \in 1..MaxPrompts, onCancel \in {"none", "returns", "exits"} :
          grouping = group(prompts, onCancel)
    /\ spinning = NotSpinning /\ selecting = NotSelecting

GroupStep(g) ==
    /\ grouping' = g
    /\ UNCHANGED <<session, blocker, measure, formatter, pathPrompt, spinning,
                   selecting>>

InvokePrompt ==
    /\ grouping.pc = "for" /\ grouping.i <= grouping.prompts
    /\ \E promise \in BOOLEAN : GroupStep(invoke(grouping, promise))

Settle ==
    /\ grouping.pc = "await"
    /\ \E outcome \in
          IF grouping.i \in grouping.active
          THEN Resolutions \cup {Rejection} ELSE {Undefined} :
          GroupStep(resume(grouping, outcome))

GroupReturn ==
    /\ grouping.pc = "for" /\ grouping.i > grouping.prompts
    /\ GroupStep([grouping EXCEPT !.pc = "returned",
                                  !.returned = grouping.results])

NextGroup == InvokePrompt \/ Settle \/ GroupReturn

SpecGroup == InitGroup /\ [][NextGroup]_vars

----------------------------------------------------------------------------
\* spinner(): the closure's locals isSpinnerActive, unblock and loop, with 0
\* for a local never assigned.  An acquisition made by block() and a timer
\* made by setInterval are named by their place in the order of the start
\* calls; released[n] counts the calls of the function block() returned for
\* acquisition n, cleared[n] tells whether timer n was handed to
\* clearInterval.  Calling unblock while it is undefined is a TypeError.

start(t) ==
    LET n == Len(t.released) + 1
    IN [t EXCEPT !.isSpinnerActive = TRUE, !.unblock = n, !.loop = n,
                 !.released = Append(t.released, 0),
                 !.cleared = Append(t.cleared, FALSE), !.last = "start"]

stop(t, code) ==
    [t EXCEPT !.isSpinnerActive = FALSE,
              !.cleared = [n \in DOMAIN t.cleared |->
                              t.cleared[n] \/ n = t.loop],
              !.released = [n \in DOMAIN t.released |->
                               IF n = t.unblock THEN t.released[n] + 1
                               ELSE t.released[n]],
              !.typeError = t.typeError \/ t.unblock = 0,
              !.last = "stop", !.code = code]

handleExit(t, code) ==
    IF t.isSpinnerActive THEN [stop(t, code) EXCEPT !.last = "exit"]
    ELSE [t EXCEPT !.last = "exit"]

InitSpinner ==
    /\ InitIdle /\ grouping = NotGrouping /\ selecting = NotSelecting
    /\ spinning = NotSpinning

SpinnerStep(t) ==
    /\ ~spinning.exited /\ spinning.events < MaxEvents
    /\ spinning' = [t EXCEPT !.events = spinning.events + 1]
    /\ UNCHANGED <<session, blocker, measure, formatter, pathPrompt, grouping,
                   selecting>>

Start == SpinnerStep(start(spinning))

Stop == \E code \in 0..2 : SpinnerStep(stop(spinning, code))

\* 'uncaughtExceptionMonitor' and 'unhandledRejection' call handleExit(2),
\* 'SIGINT' and 'SIGTERM' handleExit(1).
Signal == \E code \in 1..2 : SpinnerStep(handleExit(spinning, code))

\* 'exit' calls handleExit with the exit code; no event follows it.
Exit ==
    \E code \in 0..2 :
        SpinnerStep([handleExit(spinning, code) EXCEPT !.exited = TRUE])

NextSpinner == Start \/ Stop \/ Signal \/ Exit

SpecSpinner == InitSpinner /\ [][NextSpinner]_vars

----------------------------------------------------------------------------
\* select(): the render function's sliding window over the options.  The
\* options are named by their index, from 0; the cursor is the SelectPrompt's,
\* at any index of the list whenever render is called.  lines holds the
\* option lines of the latest frame: an ellipsis, or an option and whether
\* it is drawn active; from is the cursor at the render before, renders
\* tells a first frame (1) from a later one (2).

Number(n) == [type |-> "number", num |-> n]
max(a, b) == IF a >= b THEN a ELSE b
min(a, b) == IF a <= b THEN a ELSE b

\* opts.maxItems === undefined ? Infinity : Math.max(opts.maxItems, 5)
maxItems(opts) ==
    IF opts.type = "undefined" THEN [finite |-> FALSE, num |-> 0]
    ELSE [finite |-> TRUE, num |-> max(opts.num, 5)]

\* slide without the limit options.length - maxItems on the window's start.
slideUnlimited(location, cursor, length, most) ==
    IF most.finite /\ cursor >= location + most.num - 3
    THEN max(cursor - most.num + 3, 0)
    ELSE IF cursor < location + 2 THEN max(cursor - 2, 0)
    ELSE location

\* Lines 285-292: the window follows the cursor.  Nothing is >= Infinity.
slide(location, cursor, length, most) ==
    IF most.finite /\ cursor >= location + most.num - 3
    THEN max(min(cursor - most.num + 3, length - most.num), 0)
    ELSE IF cursor < location + 2 THEN max(cursor - 2, 0)
    ELSE location

Ellipsis == [ellipsis |-> TRUE, option |-> 0, active |-> FALSE]
opt(index, active) == [ellipsis |-> FALSE, option |-> index, active |-> active]

\* Lines 294-314: the options of the window, the first and the last of them
\* replaced by an ellipsis when options lie beyond that end.
optionLines(location, cursor, length, most) ==
    LET shouldRenderTopEllipsis ==
            most.finite /\ most.num < length /\ location > 0
        shouldRenderBottomEllipsis ==
            most.finite /\ most.num < length /\ location + most.num < length
        end == IF most.finite THEN min(location + most.num, length) ELSE length
        arr == [i \in 1..max(end - location, 0) |-> location + i - 1]
    IN [i \in DOMAIN arr |->
          IF i - 1 = 0 /\ shouldRenderTopEllipsis THEN Ellipsis
          ELSE IF i - 1 = Len(arr) - 1 /\ shouldRenderBottomEllipsis
               THEN Ellipsis
          ELSE opt(arr[i], (i - 1) + location = cursor)]

\* The render function of select(), lines 274-316.
renderSelect(t) ==
    IF t.state \in {"submit", "cancel"}
    THEN [t EXCEPT !.lines = <<opt(t.cursor, FALSE)>>]
    ELSE LET most == maxItems(t.maxItems)
             location == slide(t.slidingWindowLocation, t.cursor, t.options,
                               most)
         IN [t EXCEPT !.slidingWindowLocation = location,
                      !.lines = optionLines(location, t.cursor, t.options,
                                            most)]

MaxItemsOptions == {Undefined} \cup {Number(n) : n \in 0..MaxItems}

\* select(opts).prompt(): the first render, the cursor on the initial value.
InitSelect ==
    /\ InitIdle /\ grouping = NotGrouping /\ spinning = NotSpinning
    /\ \E length \in 1..MaxOptions, most \in MaxItemsOptions,
          cursor \in 0..(MaxOptions - 1) :
          /\ cursor < length
          /\ selecting = renderSelect(
                 [NotSelecting EXCEPT !.options = length, !.maxItems = most,
                                      !.cursor = cursor, !.state = "active",
                                      !.renders = 1])

SelectStep(t) ==
    /\ selecting.state = "active"
    /\ selecting' = renderSelect([t EXCEPT !.from = selecting.cursor,
                                           !.renders = 2])
    /\ UNCHANGED <<session, blocker, measure, formatter, pathPrompt, grouping,
                   spinning>>

\* A keypress moved the cursor, to any option, and the frame is rendered.
CursorMoved ==
    \E cursor \in 0..(selecting.options - 1) :
        SelectStep([selecting EXCEPT !.cursor = cursor])

\* Return or ctrl-c: the last frame, of the chosen option alone.
SelectDone ==
    \E final \in {"submit", "cancel"} :
        SelectStep([selecting EXCEPT !.state = final])

NextSelect == CursorMoved \/ SelectDone

SpecSelect == InitSelect /\ [][NextSelect]_vars

----------------------------------------------------------------------------
\* Properties of the session.

EmittedInLastHandler(names) ==
    \E i \in DOMAIN events : events[i].ev \in names

\* C1: the promise of prompt() is resolved at most once; it is resolved
\* exactly when the session has entered submit (with the session's value) or
\* cancel (with the cancellation sentinel), and resolve() is never called in
\* state initial, active or error.
C1_ResolvedOnceOnTerminal ==
    /\ resolveCalls <= 1
    /\ (resolveCalls = 1) <=> (state \in Terminal)
    /\ \A i \in DOMAIN atResolve : atResolve[i].state \in Terminal
    /\ state = "submit" => resolvedWith = value
    /\ state = "cancel" => resolvedWith = cancel

C1_Witness ==
    /\ state = "submit" /\ resolveCalls = 1 /\ resolvedWith = value
    /\ errCount > 0

\* C2: `state` only changes along initial->active, active->error,
\* error->active, active->submit and active->cancel; in particular nothing
\* changes it once it is submit or cancel.
AllowedTransitions ==
    {<<"initial", "active">>, <<"active", "error">>, <<"error", "active">>,
     <<"active", "submit">>, <<"active", "cancel">>}

C2_OnlyAllowedTransitions == transitions \subseteq AllowedTransitions

\* C3: return on a value the validator rejects gives state error with the
\* validator's message in `error`, emits none of finalize, submit, cancel,
\* does not close and leaves the promise unresolved; return with no validator
\* or on an accepted value gives state submit.
C3_ReturnValidates ==
    lastKey.name = "return" =>
        IF validate # "none" /\ Validator(validate, value) # ""
        THEN /\ state = "error"
             /\ error = Validator(validate, value)
             /\ ~EmittedInLastHandler({"finalize", "submit", "cancel"})
             /\ closeCalls = 0
             /\ resolveCalls = 0
        ELSE state = "submit"

C3_Witness ==
    /\ lastKey.name = "return" /\ validate = "required" /\ value = Str(<<>>)
    /\ state = "error" /\ error = "required" /\ resolveCalls = 0

\* C4: a key pressed in state error sets the state back to active before any
\* cursor, key or confirm event is dispatched, so no subscriber of those
\* sees state error; a later return on an accepted value submits and
\* resolves the promise, after any number of error/active rounds.
C4_ErrorIsRecoverable ==
    /\ \A i \in DOMAIN events :
          events[i].ev \in {"cursor", "key", "confirm"} => events[i].st # "error"
    /\ (keyState = "error" /\ lastKey.name # "") =>
          <<"error", "active">> \in transitions
    /\ (lastKey.name = "return" /\ Validator(validate, value) = "") =>
          (state = "submit" /\ resolveCalls = 1)

C4_Witness ==
    /\ errCount >= 2 /\ keyState = "active" /\ lastKey.name = "return"
    /\ state = "submit" /\ resolveCalls = 1
    /\ <<"error", "active">> \in transitions


\* The characters of a string-valued initialValue.
InitialChars == IF initialValue.type = "string" THEN initialValue.str ELSE <<>>

\* C5 (as claimed): in tracked mode the value submitted is the line-buffer
\* content built from all keypresses that preceded return, in arrival order.
C5_SubmitsLineBuffer ==
    (_track /\ state = "submit") =>
        (resolveCalls = 1 /\ resolvedWith = Str(InitialChars \o typed))

\* C5 (amended): in tracked mode the value submitted, and resolved, is the
\* initial value followed by the characters of all keypresses that preceded
\* return, in arrival order, with the tab characters removed; with no
\* validator, 'a', 'b', return submits and resolves "ab".
C5_SubmitsLineBufferWithoutTabs ==
    (_track /\ state = "submit") =>
        /\ resolveCalls = 1
        /\ resolvedWith = value
        /\ value = Str(RemoveTabs(InitialChars \o typed))

C5_Witness ==
    /\ _track /\ validate = "none" /\ initialValue = Undefined
    /\ typed = <<"a", "b">> /\ lastKey.name = "return"
    /\ state = "submit" /\ value = Str(<<"a", "b">>)
    /\ resolveCalls = 1 /\ resolvedWith = Str(<<"a", "b">>)

\* C6: the interrupt byte, in any state in which keys are handled and in
\* both modes, cancels and resolves the promise with the cancellation
\* sentinel; isCancel holds of that sentinel only: not of a submitted value,
\* not of the string 'clack:cancel', not of another symbol so described.
ClackCancelString ==
    Str(<<"c", "l", "a", "c", "k", ":", "c", "a", "n", "c", "e", "l">>)

C6_InterruptCancels ==
    /\ lastKey.char = ETX =>
          /\ state = "cancel"
          /\ resolveCalls = 1
          /\ isCancel(resolvedWith)
    /\ resolveCalls > 0 => (isCancel(resolvedWith) <=> state = "cancel")
    /\ state = "submit" => ~isCancel(value)
    /\ ~isCancel(ClackCancelString)
    /\ ~isCancel(Sym(1, "clack:cancel"))
    /\ isCancel(cancel)

C6_Witness ==
    /\ lastKey.char = ETX /\ keyState = "error" /\ _track
    /\ state = "cancel" /\ resolveCalls = 1 /\ isCancel(resolvedWith)

\* C7: whenever the session is in submit or cancel, finalize has been
\* emitted exactly once, before close() ran, while the register was still
\* populated, and before the submit or cancel event.
C7_FinalizeOnceBeforeClose ==
    state \in Terminal =>
        /\ Len(finalizeLog) = 1
        /\ finalizeLog[1].closeCalls = 0
        /\ finalizeLog[1].unsubscribed = 0
        /\ finalizeHook => finalizeLog[1].n = 1
        /\ \A i, j \in DOMAIN events :
              (events[i].ev = "finalize" /\ events[j].ev \in Terminal) => i < j

\* C8: close() runs exactly once per session, so each of its effects (the
\* trailing newline, the clearing of the register) happens once, on every
\* path into submit or cancel.
C8_ClosedExactlyOnce ==
    /\ closeCalls <= 1 /\ newlines <= 1 /\ unsubscribed <= 1
    /\ state \in Terminal => (closeCalls = 1 /\ newlines = 1 /\ unsubscribed = 1)

\* C9: at every resolve() of the promise raw mode is off, the cursor-show
\* sequence was the last cursor write, and neither onKeypress nor render is
\* still a listener; this is so after submit, after cancel, and after
\* validation errors followed by cancel, and stays so afterwards.  A handler
\* that ends normally in submit or cancel has resolved the promise.
Released(r) ==
    ~r.rawMode /\ ~r.cursorHidden /\ ~r.keypressOn /\ ~r.resizeOn

C9_ReleasedWhenResolved ==
    /\ (state \in Terminal /\ pc = "prompting") => Len(atResolve) = 1
    /\ \A i \in DOMAIN atResolve : Released(atResolve[i])
    /\ resolveCalls > 0 =>
          (~rawMode /\ ~cursorHidden /\ ~keypressOn /\ ~resizeOn)

C9_Witness ==
    /\ isTTY /\ renderFn = "themed" /\ errCount > 0 /\ state = "cancel"
    /\ resolveCalls = 1 /\ Len(atResolve) = 1 /\ Released(atResolve[1])

\* C10: when the render function, the validator or a subscriber throws
\* while a key is handled on a TTY, raw mode has been released and
\* onKeypress detached by the time the exception leaves the handler.
C10_ReleasedWhenHandlerThrows ==
    (pc = "keypressThrew" /\ isTTY) => (~rawMode /\ ~keypressOn)

\* C11: in untracked mode a keypress named h, j, k or l emits exactly one
\* cursor event, carrying left, down, up or right respectively; in tracked
\* mode it emits no cursor event and the letter is appended to the value.
C11_AliasOnlyUntracked ==
    lastKey.name \in {"h", "j", "k", "l"} =>
        LET cursorEvents == SelectSeq(events, LAMBDA e : e.ev = "cursor")
            direction == CASE lastKey.name = "h" -> "left"
                           [] lastKey.name = "j" -> "down"
                           [] lastKey.name = "k" -> "up"
                           [] lastKey.name = "l" -> "right"
        IN IF _track
           THEN /\ cursorEvents = <<>>
                /\ typed # <<>> /\ typed[Len(typed)] = lastKey.char
                /\ value = Str(RemoveTabs(InitialChars \o typed))
           ELSE /\ Len(cursorEvents) = 1
                /\ cursorEvents[1].arg = direction

C11_Witness ==
    /\ ~_track /\ lastKey.name = "j" /\ Len(events) = 2
    /\ events[1].ev = "cursor" /\ events[1].arg = "down"
    /\ events[2].ev = "key"

\* C12: once prompt() has performed the first render the state is never
\* initial, whatever the render function returns; so submit and cancel are
\* only entered from active.
C12_ActiveAfterFirstRender ==
    /\ pc = "prompting" => state # "initial"
    /\ \A t \in transitions : t[2] \in Terminal => t[1] = "active"

----------------------------------------------------------------------------
\* Properties of the event register.

\* C13: every emit calls exactly the callbacks that were registered for its
\* event when it was called, once each, in registration order and with the
\* data given, and so calls no callback of another event.
C13_EmitCallsRegisteredInOrder ==
    \A d \in DOMAIN events :
        LET called == SelectSeq(calls, LAMBDA c : c.by = d)
            registered == events[d].registered
        IN /\ Len(called) = Len(registered)
           /\ \A i \in DOMAIN called :
                 /\ called[i].cb = registered[i].cb
                 /\ called[i].ev = events[d].ev
                 /\ called[i].arg = events[d].arg

\* C14: a callback registered with once is invoked at most one time over
\* all emits, nested ones included, and is no longer registered after it.
C14_OnceInvokedOnce ==
    \A r \in registry :
        r.once =>
            /\ invocations[r.cb] <= 1
            /\ invocations[r.cb] = 1 =>
                  indexOf(subscribers[r.ev], Subscriber(r.cb, TRUE)) = -1

\* C15: what emit removes is the once-subscribers it invoked and nothing
\* else: every on-subscriber, and every once-subscriber not yet invoked, is
\* still registered for its event after any sequence of emits.
C15_CleanupRemovesOnlyInvokedOnce ==
    \A r \in registry :
        (~r.once \/ invocations[r.cb] = 0) =>
            indexOf(subscribers[r.ev], Subscriber(r.cb, r.once)) # -1

----------------------------------------------------------------------------
\* Properties of the renderer.  They speak of the latest call of render:
\* the frame it started from, the frame produced, and what it wrote.

\* The indices, from 0, at which two texts have different lines.
DifferingIndices(a, b) ==
    {i \in 0..(Len(a) + Len(b)) :
        /\ i < Len(a) \/ i < Len(b)
        /\ i >= Len(a) \/ i >= Len(b) \/ a[i + 1] # b[i + 1]}

WritesOf(ops) == SelectSeq(out, LAMBDA w : w.op \in ops)

RowAt(rows, r) == IF r >= 0 /\ r < Len(rows) THEN rows[r + 1] ELSE <<>>

\* C16: a render call whose frame equals the stored previous frame writes
\* nothing and changes neither the state nor the previous frame.
C16_SameFrameWritesNothing ==
    (lastRender.called /\ lastRender.frame = lastRender.prev) =>
        /\ out = <<>>
        /\ state = lastRender.from
        /\ _prevFrame = lastRender.prev
        /\ screen = lastRender.screen /\ cursorRow = lastRender.row

C16_Witness ==
    /\ lastRender.called /\ lastRender.frame = lastRender.prev
    /\ lastRender.from = "active" /\ Len(lastRender.frame) = 2
    /\ out = <<>> /\ state = "active"

\* C17 (as claimed): the first paint, in state initial with a non-empty
\* frame, writes the cursor-hide sequence only and not the frame.
C17_FirstPaintOnlyHidesCursor ==
    (lastRender.called /\ lastRender.from = "initial"
        /\ lastRender.frame # EmptyText) => out = <<CursorHide>>

\* C17 (amended): the first paint, in state initial with a non-empty frame,
\* writes the cursor-hide sequence and then the whole frame, and nothing
\* else; it stores the frame and leaves the state active.
C17_FirstPaintHidesCursorAndWritesFrame ==
    (lastRender.called /\ lastRender.from = "initial"
        /\ lastRender.frame # EmptyText) =>
            /\ out = <<CursorHide, Content(lastRender.frame)>>
            /\ screen = lastRender.frame
            /\ _prevFrame = lastRender.frame
            /\ state = "active"

C17_Witness ==
    /\ lastRender.called /\ lastRender.from = "initial"
    /\ lastRender.frame = << <<"a">>, <<"b">> >>
    /\ out = <<CursorHide, Content(<< <<"a">>, <<"b">> >>)>>
    /\ state = "active"

\* C18: when exactly one line index differs the renderer erases one line
\* and writes content once, the content being the new frame's line at that
\* index, which is always a line the new frame has; it erases and writes
\* nothing else.
C18_OneLinePatched ==
    LET differing == DifferingIndices(lastRender.prev, lastRender.frame)
    IN (lastRender.called /\ lastRender.from # "initial"
           /\ Cardinality(differing) = 1) =>
         \A i \in differing :
            /\ i < Len(lastRender.frame)
            /\ WritesOf({"eraseLine", "eraseDown"}) = <<EraseLine>>
            /\ WritesOf({"text"}) = <<Content(<<lastRender.frame[i + 1]>>)>>

C20_ShowsLatestFrame ==
    lastRender.called => screen = Shown(lastRender.frame)

\* C35: after every render call that wrote to the output (first paint,
\* one-line patch, tail rewrite) the stored previous frame is the frame the
\* call produced and the cursor is on that frame's last line, the prompt's
\* first row being row 0: the place restoreCursor starts from when it moves
\* up by the previous frame's line count less one.
C35_StoredFrameAndCursorAnchor ==
    (lastRender.called /\ out # <<>>) =>
        /\ _prevFrame = lastRender.frame
        /\ cursorRow = Len(lastRender.frame) - 1

----------------------------------------------------------------------------
\* Properties of block().

\* C21: a keypress carrying the interrupt byte that arrives while the
\* acquisition is in force has ended the process with exit code 0, whatever
\* the options and whatever keypresses came before it.
C21_InterruptExits ==
    (blocker.lastPhase = "acquired" /\ blocker.lastKey = InterruptKey)
        => (blocker.exited /\ blocker.exitCode = 0)

\* C22: once release() has returned, `clear` is not a keypress listener of
\* the input and never becomes one again, the cursor is shown and the
\* readline interface is closed, also when a callback of moveCursor or
\* clearLine was still to run at the time of the release.
C22_ReleasedForGood ==
    blocker.phase = "released"
        => (~blocker.listening /\ ~blocker.hidden /\ ~blocker.rlOpen)

\* C23: input.setRawMode is called on a TTY only: with true by block(),
\* with false by release(), and with the value given by setRawMode(input,
\* value); on any other input it is never called and the raw mode stays as
\* it was, block() and release() running to their end all the same.
C23_RawModeOnlyOnTTY ==
    /\ blocker.rawCalls =
          (IF ~isTTY \/ blocker.phase = "idle" THEN <<>>
           ELSE IF blocker.phase = "acquired" THEN <<TRUE>>
           ELSE <<TRUE, FALSE>>)
    /\ \A v \in BOOLEAN :
          setRawMode(Cur("none"), v).rawMode = (IF isTTY THEN v ELSE rawMode)

C23_Witness ==
    /\ ~isTTY /\ blocker.phase = "released" /\ blocker.rawCalls = <<>>
    /\ blocker.keypresses > 0 /\ ~blocker.rlOpen

----------------------------------------------------------------------------
\* Properties of strLength.

\* Printable ASCII: the single-width characters ' ' to '~'.
Printable(str) == \A k \in DOMAIN str : str[k] >= 32 /\ str[k] <= 126

\* C24: a string of printable ASCII characters only ('^' among them), so
\* with no escape sequence in it, has as its length the number of its
\* characters, whichever strLength measured it.
C24_PrintableCountsCharacters ==
    (measure.by # "none" /\ Printable(measure.input))
        => measure.length = Len(measure.input)

\* The reference width.  A complete escape sequence is ESC '[', parameter
\* bytes 0x30-0x3F, intermediate bytes 0x20-0x2F and one final byte
\* 0x40-0x7E; ControlSequenceEnd is the index of that final byte, 0 when
\* the sequence starting at index i is not complete.
RECURSIVE SkipRange(_, _, _, _)
SkipRange(str, j, lo, hi) ==
    IF j <= Len(str) /\ str[j] >= lo /\ str[j] <= hi
    THEN SkipRange(str, j + 1, lo, hi) ELSE j

ControlSequenceEnd(str, i) ==
    IF i < Len(str) /\ str[i] = ESC /\ str[i + 1] = 91
    THEN LET j == SkipRange(str, SkipRange(str, i + 2, 48, 63), 32, 47)
         IN IF j <= Len(str) /\ str[j] >= 64 /\ str[j] <= 126 THEN j ELSE 0
    ELSE 0

RECURSIVE WithoutSequences(_, _)
WithoutSequences(str, i) ==
    IF i > Len(str) THEN <<>>
    ELSE IF ControlSequenceEnd(str, i) > 0
         THEN WithoutSequences(str, ControlSequenceEnd(str, i) + 1)
         ELSE <<str[i]>> \o WithoutSequences(str, i + 1)

RECURSIVE Columns(_, _)
Columns(str, i) ==
    IF i > Len(str) THEN 0
    ELSE IF isControlCharacter(str[i]) \/ isCombiningCharacter(str[i])
         THEN Columns(str, i + 1)
         ELSE IF isSurrogatePair(str[i]) /\ i < Len(str)
                 /\ isTrailSurrogate(str[i + 1])
              THEN 1 + Columns(str, i + 2)
              ELSE 1 + Columns(str, i + 1)

ReferenceWidth(str) == Columns(WithoutSequences(str, 1), 1)

HasEscape(str) == \E k \in DOMAIN str : str[k] = ESC

\* C25: the length of a string in which every escape character starts a
\* complete sequence is its reference width: the sequences removed, then
\* 0 for a control character or combining mark, 1 for a surrogate pair and
\* 1 for any other code unit.
C25_EqualsReferenceWidth ==
    (measure.by # "none" /\ ~HasEscape(WithoutSequences(measure.input, 1)))
        => measure.length = ReferenceWidth(measure.input)

\* An escape character followed to the end of the string by nothing but
\* an optional '[' and parameter characters (digits and ';').
UnterminatedAt(str, i) ==
    /\ str[i] = ESC
    /\ \A k \in (i + 1)..Len(str) :
          \/ str[k] \in Digits \cup {59}
          \/ k = i + 1 /\ str[k] = 91

\* The length the function that measured `measure.input` gives to str.
LengthBy(version, str) ==
    CASE version = "strLength" -> strLength(str)
      [] version = "strLengthWide" -> strLengthWide(str)
      [] OTHER -> strLengthScan(str)

\* C26: when a text without escape characters is followed by an escape
\* sequence that never ends, that sequence adds no column: the length is
\* the length of the text before it.
C26_UnterminatedCountsZero ==
    measure.by # "none" =>
        \A i \in DOMAIN measure.input :
            (UnterminatedAt(measure.input, i)
                /\ ~HasEscape(SubSeq(measure.input, 1, i - 1)))
            => measure.length =
                   LengthBy(measure.by, SubSeq(measure.input, 1, i - 1))

----------------------------------------------------------------------------
\* Properties of Prompt.format.

\* C27: with a maxWidth above 0, every line format returns, decoration and
\* separating spaces included, is at most maxWidth columns wide.
C27_NoLineWiderThanMaxWidth ==
    (formatter.pc = "done" /\ formatter.maxWidth > 0)
        => \A k \in DOMAIN formatter.result :
               strLength(formatter.result[k]) <= formatter.maxWidth

\* C28: whatever the text and maxWidth, a call of format comes to its
\* return.
C28_FormatTerminates == <>(formatter.pc = "done")

----------------------------------------------------------------------------
\* Properties of PathPrompt.

\* C29: up and down leave the tree and the length of the cursor path as
\* they are and change the last segment alone, to the next or the previous
\* index modulo the number of siblings (with no sibling there is nothing
\* to move to); down after up and up after down give the path back.
C29_UpDownWrap ==
    LET t == pathPrompt
        was == t.before._cursorMap
        now == t._cursorMap
        n == Len(_layer([t EXCEPT !.root = t.before.root, !._cursorMap = was]))
    IN /\ t.key \in {"up", "down"} =>
             /\ t.root = t.before.root
             /\ Len(now) = Len(was)
             /\ dropLast(now) = dropLast(was)
             /\ was # <<>> =>
                    IF n = 0 THEN now = was
                    ELSE now[Len(now)] =
                            (was[Len(was)]
                                + (IF t.key = "down" THEN 1 ELSE n - 1)) % n
       /\ up(down(t))._cursorMap = t._cursorMap
       /\ down(up(t))._cursorMap = t._cursorMap

\* Every segment of the path is the index of a node among the children of
\* the node the segments before it lead to.
RECURSIVE Resolves(_, _, _)
Resolves(node, cursorMap, k) ==
    IF k > Len(cursorMap) THEN TRUE
    ELSE /\ hasChild(node, cursorMap[k])
         /\ Resolves(node.children[cursorMap[k] + 1], cursorMap, k + 1)

\* C30: after any cursor events, on any tree, every segment of the cursor
\* path is an index of an existing node at its depth.
C30_PathResolves ==
    pathPrompt.key # "none"
        => Resolves(pathPrompt.root, pathPrompt._cursorMap, 1)

\* The prompt as it was before the latest cursor event.
Before ==
    [pathPrompt EXCEPT !.root = pathPrompt.before.root,
                       !._cursorMap = pathPrompt.before._cursorMap]

\* What the disk holds under the node the cursor was on, as mapDir lists it.
ListingBefore ==
    LET entries == lookup(pathPrompt.disk, _selectValue(Before)).entries
    IN SelectSeq([i \in DOMAIN entries |->
                     [name |-> <<i>>, dir |-> entries[i].dir, children |-> <<>>]],
                 LAMBDA node : pathPrompt.onlyShowDir => node.dir)

\* C31: after 'right' on a directory its children are the listing of the
\* disk and the path has one more segment, 0, exactly when that listing is
\* not empty; after 'right' on a file the tree and the path are as before.
C31_RightExpands ==
    pathPrompt.key = "right" =>
        LET was == pathPrompt.before._cursorMap
            at == Followed(Before.root, was, 1)
        IN IF option(Before).node.dir
           THEN /\ pathPrompt.root =
                      setChildren(Before.root, at, ListingBefore)
                /\ NodeAt(pathPrompt.root, at).children = ListingBefore
                /\ pathPrompt._cursorMap =
                      (IF ListingBefore # <<>> THEN was \o <<0>> ELSE was)
           ELSE /\ pathPrompt.root = Before.root
                /\ pathPrompt._cursorMap = was

C31_Witness ==
    /\ pathPrompt.key = "right" /\ option(Before).node.dir
    /\ ListingBefore = <<>>
    /\ Len(pathPrompt.before._cursorMap) = 1
    /\ Resolves(Before.root, pathPrompt.before._cursorMap, 1)
    /\ pathPrompt._cursorMap = pathPrompt.before._cursorMap

\* The two things 'left' is said to do.
Collapsed ==
    LET now == pathPrompt._cursorMap
        at == Followed(Before.root, now, 1)
    IN /\ now # <<>>
       /\ NodeAt(Before.root, at).children # <<>>
       /\ pathPrompt.root = setChildren(Before.root, at, <<>>)
ReRooted ==
    /\ pathPrompt.before._cursorMap = <<>>
    /\ pathPrompt._cursorMap = <<>>
    /\ pathPrompt.root.name = parent(Before.root.name)
    /\ pathPrompt.root.children = mapDir(pathPrompt, parent(Before.root.name))

\* C32 as stated: 'left' removes at most one segment and then has either
\* emptied the children of the expanded node it returned to or re-rooted
\* the tree at the parent directory, one of the two and not both.
C32_LeftCollapsesOrReRoots ==
    pathPrompt.key = "left" =>
        /\ pathPrompt._cursorMap = dropLast(pathPrompt.before._cursorMap)
        /\ Collapsed # ReRooted

\* C32 amended: 'left' removes the last segment if there is one; from a
\* path of two or more segments it empties the children of the node it
\* returns to, from the empty path it re-roots the tree at the parent
\* directory, and from a path of one segment it does neither: the cursor
\* rests on the root and the tree is as before.
C32_LeftCollapsesReRootsOrRests ==
    pathPrompt.key = "left" =>
        LET was == pathPrompt.before._cursorMap
        IN /\ pathPrompt._cursorMap = dropLast(was)
           /\ CASE Len(was) >= 2 -> Collapsed /\ ~ReRooted
                [] Len(was) = 0 -> ReRooted /\ ~Collapsed
                [] OTHER -> /\ pathPrompt.root = Before.root
                            /\ ~Collapsed /\ ~ReRooted

C32_Witness ==
    /\ pathPrompt.key = "left" /\ Len(pathPrompt.before._cursorMap) = 2
    /\ Collapsed /\ pathPrompt.root # Before.root


----------------------------------------------------------------------------
\* Properties of group().

Called == DOMAIN grouping.received

\* C33: group() runs its prompts one after another in key order: a prompt
\* is called only when every earlier prompt was called and its promise has
\* settled, so at most one prompt is active at any time, and the results
\* object a prompt is handed holds an entry for every earlier prompt and
\* none for itself or a later one.
C33_GroupIsSequential ==
    /\ Cardinality(grouping.active) <= 1
    /\ \A name \in Called :
          /\ \A earlier \in 1..(name - 1) :
                earlier \in Called /\ earlier \notin grouping.active
          /\ grouping.received[name] = 1..(name - 1)

C33_Witness ==
    /\ grouping.prompts = 3 /\ Called = 1..3 /\ grouping.active = {3}
    /\ grouping.received[3] = {1, 2}
    /\ grouping.outcomes[1] = cancel /\ grouping.outcomes[2] = Undefined

CallsFor(name) ==
    {c \in DOMAIN grouping.onCancelCalls :
        grouping.onCancelCalls[c].name = name}

\* C34: with an onCancel callback, a prompt that resolved to the cancel
\* symbol has the string 'canceled' stored under its name, onCancel was
\* called once for it (and for no other prompt) with the results collected
\* up to and including that entry, and unless onCancel ended the process
\* the loop goes on with the next prompt: group() returns only after every
\* prompt was called.
C34_OnCancelStoresAndContinues ==
    grouping.onCancel # "none" =>
        /\ \A name \in DOMAIN grouping.outcomes :
              IF isCancel(grouping.outcomes[name])
              THEN /\ grouping.results[name] = canceled
                   /\ Cardinality(CallsFor(name)) = 1
                   /\ \A c \in CallsFor(name) :
                         grouping.onCancelCalls[c].results =
                             [earlier \in 1..name |->
                                 grouping.results[earlier]]
                   /\ grouping.onCancel = "returns" =>
                         /\ grouping.pc \in {"for", "await", "returned",
                                             "rejected"}
                         /\ grouping.i > name
                         /\ grouping.pc = "returned" =>
                               Called = 1..grouping.prompts
                         /\ (grouping.pc = "for" /\ name < grouping.prompts
                             /\ name + 1 \notin Called)
                               => grouping.i = name + 1
              ELSE CallsFor(name) = {}
        /\ Len(grouping.onCancelCalls) <= Cardinality(DOMAIN grouping.outcomes)

C34_Witness ==
    /\ grouping.onCancel = "returns" /\ grouping.prompts = 3
    /\ grouping.outcomes = <<Str(<<"a">>), cancel, Str(<<"a">>)>>
    /\ grouping.pc = "returned"
    /\ grouping.returned = <<Str(<<"a">>), canceled, Str(<<"a">>)>>
    /\ Len(grouping.onCancelCalls) = 1

\* C38: the object group() returns holds the cancel symbol under no name,
\* whether or not an onCancel callback was supplied.
C38_NoSentinelReturned ==
    grouping.pc = "returned" =>
        \A name \in DOMAIN grouping.returned :
            ~isCancel(grouping.returned[name])


----------------------------------------------------------------------------
\* Properties of spinner().

Outstanding ==
    {n \in DOMAIN spinning.released : spinning.released[n] = 0}
Ticking == {n \in DOMAIN spinning.cleared : ~spinning.cleared[n]}

\* C39: over any sequence of start, stop, signal and exit events on one
\* spinner, every acquisition made by start is released exactly once and
\* every timer cleared: at most one acquisition and one timer are
\* outstanding at any time, none is outstanding after stop or after the exit
\* handler ran, no acquisition is released twice and stop never calls a
\* release that was not acquired.
C39_SpinnerReleasesOnce ==
    /\ Cardinality(Outstanding) <= 1 /\ Cardinality(Ticking) <= 1
    /\ \A n \in DOMAIN spinning.released : spinning.released[n] <= 1
    /\ spinning.last \in {"stop", "exit"} => Outstanding = {} /\ Ticking = {}
    /\ ~spinning.typeError


----------------------------------------------------------------------------
\* Properties of a ConfirmPrompt.

Answers == {"y", "n"}

\* C36: in a ConfirmPrompt a keypress with character y or Y has resolved
\* the promise with true and one with n or N has resolved it with false,
\* whatever the value was toggled to by cursor events before; a keypress
\* with any other character, or with none, emits no confirm event; and the
\* promise is resolved at most once.
C36_ConfirmAnswers ==
    (kind = "ConfirmPrompt" /\ lastKey # Key(NoChar, "")) =>
        /\ resolveCalls <= 1
        /\ IF lastKey.char # NoChar /\ toLowerCase(lastKey.char) \in Answers
           THEN /\ resolveCalls = 1
                /\ resolvedWith = Bool(toLowerCase(lastKey.char) = "y")
           ELSE ~EmittedInLastHandler({"confirm"})

\* 'Y' pressed after 'h' had toggled the value from true to false.
C36_Witness ==
    /\ kind = "ConfirmPrompt" /\ lastKey = Key("Y", "y")
    /\ initialValue = Bool(TRUE) /\ typed = <<"h", "Y">>
    /\ resolveCalls = 1 /\ resolvedWith = Bool(TRUE)
    /\ closeCalls = 2


----------------------------------------------------------------------------
\* Properties of select().

\* The most option lines a frame may hold: Math.max(maxItems, 5), and with
\* no maxItems every option.
Most ==
    IF selecting.maxItems.type = "undefined" THEN selecting.options
    ELSE max(selecting.maxItems.num, 5)

\* C37: for any number of options, any maxItems and any sequence of cursor
\* positions within the list, after each render of the list the window's
\* start is at least 0 and at most max(0, options - maxItems'), the active
\* option lies inside the window and is drawn as the active option, not as
\* one of the two ellipses, and the frame holds at most maxItems' option
\* lines, maxItems' being max(maxItems, 5).
C37_WindowHoldsTheCursor ==
    LET t == selecting
        slot == t.cursor - t.slidingWindowLocation + 1
    IN t.state = "active" =>
        /\ 0 <= t.slidingWindowLocation
        /\ t.slidingWindowLocation <= max(0, t.options - Most)
        /\ Len(t.lines) <= Most
        /\ slot \in DOMAIN t.lines
        /\ t.lines[slot] = opt(t.cursor, TRUE)
        /\ \A i \in DOMAIN t.lines :
              \/ t.lines[i].ellipsis
              \/ t.lines[i].option = t.slidingWindowLocation + i - 1

\* The cursor wrapped from the first option to the last of a long list, the
\* window at the list's end with an ellipsis above only.
C37_Witness ==
    /\ selecting.state = "active" /\ selecting.options = 8
    /\ selecting.renders = 2 /\ selecting.from = 0
    /\ selecting.maxItems = Number(6) /\ selecting.cursor = 7
    /\ selecting.slidingWindowLocation = 2
    /\ Len(selecting.lines) = 6
    /\ selecting.lines[1] = Ellipsis /\ selecting.lines[6] = opt(7, TRUE)

====
